---- MODULE Spec2Model ----
(***************************************************************************)
(* Dual-store synchronisation core of trinity_memory: the File Indexer,    *)
(* the conversation save path, direct file access and the Query Parser,    *)
(* over three stores: the Blob Store (NAS), the Metadata Catalog (Prisma / *)
(* PostgreSQL) and the Vector Index (Pinecone).                            *)
(*                                                                         *)
(* Every asynchronous handler is cut at its awaits: one action per awaited *)
(* external call, so that interleavings of concurrent requests, failures   *)
(* of a single call and a crash between two calls are all behaviours of    *)
(* the model.                                                              *)
(***************************************************************************)
EXTENDS Integers, Sequences, FiniteSets, TLC

(***************************************************************************)
(* Bounds of the model.                                                    *)
(***************************************************************************)
\* How many NasFile rows are ever inserted (row ids are never reused).
MaxFileRows == 2

\* How many Conversation rows are ever inserted.
MaxConversations == 1

\* The longest message list saveConversation is given.
MaxMessages == 2

\* How many FileAccessLog rows are ever written.
MaxAccessLogs == 1

\* The most chunks the text splitter cuts one message into.
MaxChunks == 2

\* Rows of SearchQuery.
MaxSearchQueries == 1

\* Rows of MemoryRule.
MaxRules == 1

\* How many MemoryTrigger rows there are when an evaluation may start.
MaxTriggers == 2

\* How long the clock runs, in days.
MaxDays == 2

\* The longest content chunkContent is given, in characters.
MaxContent == 5

(***************************************************************************)
(* Program constants.                                                      *)
(***************************************************************************)
\* file.indexer.ts:339  const batchSize = 100
batchSize == 100

\* options?.limit || 10 and options?.limit || 20 of SearchService
defaultLimit == 10

defaultTopK == 20

\* One score point. The weights 1.5 and 0.5 of hybridSearch in points.
ScoreUnit == 600

semanticWeight == (3 * ScoreUnit) \div 2

structuredWeight == ScoreUnit \div 2

\* The similarities the index reports, in hundredths.
Similarities == {60, 80}

\* Milliseconds of a day; the clock advances by half a day at a time.
msPerDay == 24 * 60 * 60 * 1000

tickMs == msPerDay \div 2

\* The limits a client asks for; 0 for none.
Limits == {0, 1}

(***************************************************************************)
(* Universe of values.                                                     *)
(***************************************************************************)
Users == {"u1", "u2"}

\* Request handlers that can be in flight at the same time.
Procs == {"p1", "p2"}

\* "No conversation": indexFile's optional conversationId left out, a
\* file name that carries no conversation id.
NoConv == [none |-> TRUE]

\* The id of the k-th Conversation row (a cuid: fresh, never reused).
ConvId(k) == [conv |-> k]

\* const conversation = { id: (Math.random() * 9999).toString() }: an id
\* made up by the handler; two calls can draw the same one.
RandomIds == {[rand |-> "r1"], [rand |-> "r2"]}

\* A blob path /trinity/users/<owner>/<dir>/<year>/<month>/<base>[_<conv>]<ext>
\* (NASService.buildUserPath); year and month are left out.
UploadPath(u) ==
    [owner |-> u, dir |-> "uploads", base |-> "a", conv |-> NoConv, ext |-> ".txt"]

\* buildUserPath(userId, 'conversations', `conv_${conversation.id}.json`)
ConversationPath(u, c) ==
    [owner |-> u, dir |-> "conversations", base |-> "conv", conv |-> c,
     ext |-> ".json"]

\* buildUserPath(conversation.userId, 'summaries', `summary_${conversationId}.md`)
SummaryPath(u, c) ==
    [owner |-> u, dir |-> "summaries", base |-> "summary", conv |-> c,
     ext |-> ".md"]

UploadPaths == {UploadPath(u) : u \in Users}

\* Contents a client uploads: a plain text, told from the other texts by
\* the number n of chunks that chunkContent cuts it into.
TextContent(n) == [kind |-> "text", n |-> n]

EmptyText == TextContent(0)

ShortText == TextContent(1)

\* A text of one chunk more than fits one upsert batch.
LongText == TextContent(batchSize + 1)

\* JSON.stringify(fileContent): the conversation file of n messages.
ConversationContent(c, u, n) ==
    [kind |-> "conversation", n |-> n, conv |-> c, user |-> u]

\* The summary text written to summary_<conversationId>.md.
SummaryContent(c) == [kind |-> "summary", n |-> 1, conv |-> c]

VARIABLES
    nas,             \* Blob Store: path -> content, for the paths that exist
    nasFile,         \* Metadata Catalog, table NasFile: a set of rows
    nextFileId,      \* the next NasFile primary key
    vectors,         \* Vector Index: vector id -> metadata of the entry
    conversation,    \* table Conversation
    message,         \* table Message
    tag,             \* table Tag
    conversationTag, \* table ConversationTag
    fileAccessLog,   \* table FileAccessLog, in insertion order
    searchQuery,     \* table SearchQuery, in insertion order
    memoryRule,      \* table MemoryRule
    memoryTrigger,   \* table MemoryTrigger, in insertion order
    now,             \* the clock: Date.now(), in ms since a Sunday 00:00
    pc,              \* per handler: the await it is suspended at
    loc,             \* per handler: its arguments and local variables
    ret              \* per handler: what its last call returned or threw

vars == <<nas, nasFile, nextFileId, vectors, conversation, message, tag,
          conversationTag, fileAccessLog, searchQuery, memoryRule,
          memoryTrigger, now, pc, loc, ret>>

\* The tables of the rule engine, and the clock it reads.
triggers == <<memoryRule, memoryTrigger, now>>

\* The tables of the conversation save path, the audit logs and the rule
\* engine.
others == <<conversation, message, tag, conversationTag, fileAccessLog,
            searchQuery, triggers>>

stores == <<nas, nasFile, nextFileId, vectors, others>>

NoLoc == [op |-> "none"]

\* No call has completed since the handler last started one (or crashed).
NoRet == [status |-> "none"]

\* The promise of the call resolved.
Ok == [status |-> "ok"]

\* The promise resolved with data read from the stores: whose catalog row
\* and whose blob the data was taken from.
Returned(kind, rowOwner, blobOwner) ==
    [status |-> "ok", kind |-> kind, rowOwner |-> rowOwner,
     blobOwner |-> blobOwner]

\* The promise rejected with an Error the handler created itself.
Err(msg) == [status |-> "error", error |-> msg]

\* The promise rejected with the error of a failed capability call
\* (catalog, blob store, vector index, embedding model).
DependencyFailure == Err("dependency")

Init ==
    /\ nas = <<>>
    /\ nasFile = {}
    /\ nextFileId = 1
    /\ vectors = <<>>
    /\ conversation = {}
    /\ message = {}
    /\ tag = {}
    /\ conversationTag = {}
    /\ fileAccessLog = <<>>
    /\ searchQuery = <<>>
    /\ memoryRule = {}
    /\ memoryTrigger = <<>>
    /\ now = 0
    /\ pc = [p \in Procs |-> "idle"]
    /\ loc = [p \in Procs |-> NoLoc]
    /\ ret = [p \in Procs |-> NoRet]

(***************************************************************************)
(* Pure helpers of the File Indexer.                                       *)
(***************************************************************************)
\* createHash('sha256').update(content).digest('hex'): collision-free.
Checksum(content) == [sha256 |-> content]

\* detectFileType: path segment, then content sniffing, then extension.
detectFileType(filePath, content) ==
    IF filePath.dir = "conversations" THEN "conversation"
    ELSE IF filePath.dir = "summaries" THEN "summary"
    ELSE IF filePath.dir = "proposals" THEN "proposal"
    ELSE IF filePath.dir = "agents" THEN "agent"
    ELSE IF content.kind = "conversation" THEN "conversation"
    ELSE IF filePath.ext = ".json" THEN "json"
    ELSE IF filePath.ext = ".md" THEN "markdown"
    ELSE IF filePath.ext = ".txt" THEN "text"
    ELSE "unknown"

\* path.basename(filePath)
Basename(filePath) ==
    [base |-> filePath.base, conv |-> filePath.conv, ext |-> filePath.ext]

\* extractFileMetadata: checksum, type, and the title and summary that the
\* parser of the type takes from the content.
\*   conversation: JSON.parse, title from data.timestamp, summary from
\*                 data.messages; a content that does not parse leaves the
\*                 title '' and the summary ''.
\*   summary:      title 'Summary' (or the heading), summary the first 200
\*                 characters.
\*   proposal:     title 'Proposal' (no title field), summary the first 200
\*                 characters.
\*   otherwise:    title the base name of the path, summary the first 200
\*                 characters followed by '...'.
extractFileMetadata(filePath, content) ==
    LET fileType == detectFileType(filePath, content) IN
    [checksum |-> Checksum(content),
     type     |-> fileType,
     title    |-> IF fileType = "conversation"
                  THEN [text |-> IF content.kind = "conversation"
                                 THEN "Conversation from" ELSE ""]
                  ELSE IF fileType = "summary" THEN [text |-> "Summary"]
                  ELSE IF fileType = "proposal" THEN [text |-> "Proposal"]
                  ELSE [basename |-> Basename(filePath)],
     summary  |-> IF fileType = "conversation"
                  THEN IF content.kind = "conversation"
                       THEN [messages |-> content] ELSE [text |-> ""]
                  ELSE IF fileType \in {"summary", "proposal"}
                  THEN [preview |-> content]
                  ELSE [previewDots |-> content]]

\* chunkContent(content).length: a text is told by it; a conversation file
\* and a summary are taken to fit one chunk.
NumChunks(content) == IF content.kind = "text" THEN content.n ELSE 1

\* `${metadata.checksum}_chunk_${i}`
VectorId(checksum, i) == [checksum |-> checksum, chunk |-> i]

\* indexChunks: const vectorIds = [...], in chunk order.
ChunkVectorIds(checksum, n) == [k \in 1..n |-> VectorId(checksum, k - 1)]

\* indexChunks: the metadata attached to every vector of the call.
ChunkMetadata(filePath, userId, conversationId) ==
    [filePath |-> filePath, userId |-> userId, conversationId |-> conversationId]

\* The chunk indexes of batch b: vectors.slice(b * batchSize, (b+1) * batchSize)
BatchChunks(n, b) == {i \in 0..(n - 1) : i \div batchSize = b}

NumBatches(n) == (n + batchSize - 1) \div batchSize

\* index.upsert(batch): entries are written under their ids, replacing any
\* entry already stored under the same id.
VectorUpsert(index, ids, metadata) ==
    [id \in (DOMAIN index) \cup ids |-> IF id \in ids THEN metadata ELSE index[id]]

\* index.deleteMany(ids)
VectorDelete(index, ids) == [id \in (DOMAIN index) \ ids |-> index[id]]

Range(s) == {s[k] : k \in DOMAIN s}

\* The characters of the contents chunkContent is given: a letter, the
\* blank and two sentence terminators.
Characters == {"a", " ", ".", "!"}

\* The contents of up to MaxContent characters, and the chunk sizes asked
\* for.
Contents == UNION {[1..n -> Characters] : n \in 0..MaxContent}

ChunkSizes == {2, 3, 4}

\* The character class [.!?]
Terminator(c) == c \in {".", "!", "?"}

\* content.split(/[.!?]+/) from character k on, cur being the piece read
\* so far: a run of terminators ends one piece; a content that begins or
\* ends with a run has an empty first or last piece.
RECURSIVE SplitFrom(_, _, _)
SplitFrom(content, k, cur) ==
    IF k > Len(content) THEN <<cur>>
    ELSE IF Terminator(content[k])
    THEN IF k > 1 /\ Terminator(content[k - 1])
         THEN SplitFrom(content, k + 1, cur)
         ELSE <<cur>> \o SplitFrom(content, k + 1, <<>>)
    ELSE SplitFrom(content, k + 1, Append(cur, content[k]))

split(content) == SplitFrom(content, 1, <<>>)

\* String.prototype.trim
RECURSIVE trim(_)
trim(str) ==
    IF str = <<>> THEN str
    ELSE IF Head(str) = " " THEN trim(Tail(str))
    ELSE IF str[Len(str)] = " " THEN trim(SubSeq(str, 1, Len(str) - 1))
    ELSE str

\* The loop of chunkContent over the sentences from the k-th on.
RECURSIVE ChunkLoop(_, _, _, _, _)
ChunkLoop(sentences, k, chunks, currentChunk, maxChunkSize) ==
    IF k > Len(sentences)
    THEN IF trim(currentChunk) # <<>>
         THEN Append(chunks, trim(currentChunk))
         ELSE chunks
    ELSE LET sentence == sentences[k] IN
         IF /\ Len(currentChunk) + Len(sentence) > maxChunkSize
            /\ currentChunk # <<>>
         THEN ChunkLoop(sentences, k + 1, Append(chunks, trim(currentChunk)),
                        sentence, maxChunkSize)
         ELSE ChunkLoop(sentences, k + 1, chunks,
                        currentChunk
                           \o (IF currentChunk # <<>> THEN <<".", " ">> ELSE <<>>)
                           \o sentence,
                        maxChunkSize)

\* chunkContent(content, maxChunkSize)
chunkContent(content, maxChunkSize) ==
    ChunkLoop(split(content), 1, <<>>, <<>>, maxChunkSize)

(***************************************************************************)
(* Metadata Catalog, table NasFile.                                        *)
(***************************************************************************)
\* prisma.nasFile.findFirst({ where: { filePath, userId } })
FindNasFile(rows, filePath, userId) ==
    {r \in rows : r.filePath = filePath /\ r.userId = userId}

\* prisma.nasFile.upsert, update branch: the columns it overwrites.
\* A slip of the update branch: the checksum column is left out.
NasFileUpdateKeepsChecksum(r, metadata, vectorIds) ==
    [r EXCEPT !.title = metadata.title,
              !.summary = metadata.summary,
              !.vectorIds = vectorIds,
              !.modified = TRUE]

\* modifiedAt is set apart from createdAt by the update branch alone; the
\* row keeps whether the two differ.
NasFileUpdate(r, metadata, vectorIds) ==
    [r EXCEPT !.checksum = metadata.checksum,
              !.title = metadata.title,
              !.summary = metadata.summary,
              !.vectorIds = vectorIds,
              !.modified = TRUE]

\* prisma.nasFile.upsert, create branch.
NasFileCreate(id, filePath, userId, metadata, vectorIds, conversationId) ==
    [id |-> id, userId |-> userId, filePath |-> filePath,
     fileType |-> metadata.type, checksum |-> metadata.checksum,
     title |-> metadata.title, summary |-> metadata.summary,
     conversationId |-> conversationId,
     vectorIds |-> vectorIds, modified |-> FALSE, lastAccessed |-> FALSE]

\* A catalog without the unique index: the upsert always inserts.
NasFileUpsertAlwaysCreates(rows, id, filePath, userId, metadata, vectorIds, conversationId) ==
    rows \cup {NasFileCreate(id, filePath, userId, metadata, vectorIds,
                             conversationId)}

\* prisma.nasFile.upsert({ where: { userId_filePath }, update, create })
NasFileUpsert(rows, id, filePath, userId, metadata, vectorIds, conversationId) ==
    LET old == FindNasFile(rows, filePath, userId) IN
    IF old # {}
    THEN (rows \ old) \cup {NasFileUpdate(r, metadata, vectorIds) : r \in old}
    ELSE rows \cup {NasFileCreate(id, filePath, userId, metadata, vectorIds,
                                  conversationId)}

(***************************************************************************)
(* Handler bookkeeping.                                                    *)
(***************************************************************************)
\* The handler returns or throws: the request is over.
Finish(p, result) ==
    /\ pc' = [pc EXCEPT ![p] = "idle"]
    /\ loc' = [loc EXCEPT ![p] = NoLoc]
    /\ ret' = [ret EXCEPT ![p] = result]

\* The handler goes on to its next await; its promise is pending.
Goto(p, label, locals) ==
    /\ pc' = [pc EXCEPT ![p] = label]
    /\ loc' = [loc EXCEPT ![p] = locals]
    /\ ret' = [ret EXCEPT ![p] = NoRet]

(***************************************************************************)
(* FileIndexer.indexFile(filePath, userId, conversationId?)                *)
(***************************************************************************)
\* Who called indexFile and what the caller resolves with once indexFile
\* has returned: a request of user userId for indexFile itself.
DirectCall(userId) == [op |-> "indexFile", caller |-> userId, result |-> Ok]

\* Steps 1-3a: readFile, getFileStats, extractFileMetadata, chunkContent.
IndexBegin(p, filePath, userId, conversationId, ctx, ok) ==
    /\ UNCHANGED stores
    /\ IF ok /\ filePath \in DOMAIN nas
       THEN LET content == nas[filePath]
                metadata == extractFileMetadata(filePath, content)
            IN Goto(p, "ix_embed",
                    [op |-> "indexFile", filePath |-> filePath, userId |-> userId,
                     conversationId |-> conversationId, metadata |-> metadata,
                     chunks |-> NumChunks(content), batch |-> 0, ctx |-> ctx])
       ELSE Goto(p, "ix_throw", [op |-> "indexFile", filePath |-> filePath,
                                 userId |-> userId, error |-> "readFile"])

\* An indexFile(filePath, userId, conversationId?) request.
IndexRead(p, filePath, userId, conversationId, ok) ==
    /\ pc[p] = "idle"
    /\ IndexBegin(p, filePath, userId, conversationId, DirectCall(userId), ok)

\* A loop that stops after its first batch.
AfterBatchFirstOnly(n, b) == IF b = 0 /\ n > 0 THEN "ix_upsert" ELSE "ix_catalog"

\* Where indexChunks goes after batch b of n chunks.
AfterBatch(n, b) == IF b < NumBatches(n) THEN "ix_upsert" ELSE "ix_catalog"

\* An awaited call of indexFile throws: control is in the catch block, with
\* the error in hand.
IndexThrow(p, msg) ==
    Goto(p, "ix_throw", [op |-> "indexFile", filePath |-> loc[p].filePath,
                         userId |-> loc[p].userId, error |-> msg])

\* A catch block that logs and forgets to rethrow.
IndexCatchSwallows(p) == Finish(p, Ok)

\* The catch block of indexFile: logger.error, then throw error.
IndexCatchResult(p) == Finish(p, DependencyFailure)

IndexCatch(p) ==
    /\ pc[p] = "ix_throw"
    /\ UNCHANGED stores
    /\ IndexCatchResult(p)

\* indexChunks: this.embeddings.embedDocuments(chunks)
IndexEmbed(p, ok) ==
    /\ pc[p] = "ix_embed"
    /\ UNCHANGED stores
    /\ IF ok
       THEN Goto(p, AfterBatch(loc[p].chunks, 0), loc[p])
       ELSE IndexThrow(p, "embedDocuments")

\* indexChunks: await index.upsert(batch), one batch per step.
IndexUpsertBatch(p, ok) ==
    /\ pc[p] = "ix_upsert"
    /\ UNCHANGED <<nas, nasFile, nextFileId, others>>
    /\ IF ok
       THEN LET l == loc[p]
                ids == {VectorId(l.metadata.checksum, i) :
                            i \in BatchChunks(l.chunks, l.batch)}
            IN /\ vectors' = VectorUpsert(vectors, ids,
                     ChunkMetadata(l.filePath, l.userId, l.conversationId))
               /\ Goto(p, AfterBatch(l.chunks, l.batch + 1),
                       [l EXCEPT !.batch = l.batch + 1])
       ELSE /\ UNCHANGED vectors
            /\ IndexThrow(p, "upsert")

\* Step 4: prisma.nasFile.upsert keyed by (userId, filePath). The create
\* branch is held to NasFile_conversationId_fkey.
IndexCatalog(p, ok) ==
    /\ pc[p] = "ix_catalog"
    /\ UNCHANGED <<nas, vectors, others>>
    /\ LET l == loc[p]
           exists == FindNasFile(nasFile, l.filePath, l.userId) # {}
           fkey == \/ exists
                   \/ l.conversationId = NoConv
                   \/ \E c \in conversation : c.id = l.conversationId
       IN IF ok /\ fkey
          THEN /\ exists \/ nextFileId <= MaxFileRows
               /\ nasFile' = NasFileUpsert(nasFile, nextFileId, l.filePath, l.userId,
                                 l.metadata,
                                 ChunkVectorIds(l.metadata.checksum, l.chunks),
                                 l.conversationId)
               /\ nextFileId' = IF exists THEN nextFileId ELSE nextFileId + 1
               /\ Finish(p, l.ctx.result)
          ELSE /\ UNCHANGED <<nasFile, nextFileId>>
               /\ IndexThrow(p, "nasFile.upsert")

(***************************************************************************)
(* FileIndexer.removeFileFromIndex(filePath, userId)                       *)
(***************************************************************************)
\* Removal without the !file test: file.vectorIds of null throws.
RemoveMissingThrows(p) == Finish(p, Err("Cannot read properties of null"))

\* What removal does when findFirst returns no row: return.
RemoveMissing(p) == Finish(p, Ok)

\* A removeFileFromIndex(filePath, userId) request arrives.
RemoveStart(p, filePath, userId) ==
    /\ pc[p] = "idle"
    /\ UNCHANGED stores
    /\ ret' = [ret EXCEPT ![p] = NoRet]
    /\ pc' = [pc EXCEPT ![p] = "rm_find"]
    /\ loc' = [loc EXCEPT ![p] = [op |-> "removeFileFromIndex",
                                  filePath |-> filePath, userId |-> userId]]

\* prisma.nasFile.findFirst, then the !file and vectorIds.length tests.
RemoveFind(p) ==
    /\ pc[p] = "rm_find"
    /\ UNCHANGED stores
    /\ LET found == FindNasFile(nasFile, loc[p].filePath, loc[p].userId) IN
       IF found = {}
       THEN RemoveMissing(p)
       ELSE \E file \in found :
              Goto(p, IF Len(file.vectorIds) > 0 THEN "rm_vectors" ELSE "rm_row",
                   [op |-> "removeFileFromIndex", filePath |-> loc[p].filePath,
                    userId |-> loc[p].userId, file |-> file])

\* A removal that goes on to the FileRecord without deleting the vector
\* entries.
RemoveVectorsSkipped(p, ok) ==
    /\ pc[p] = "rm_vectors"
    /\ UNCHANGED stores
    /\ Goto(p, "rm_row", loc[p])

\* index.deleteMany(file.vectorIds)
RemoveVectors(p, ok) ==
    /\ pc[p] = "rm_vectors"
    /\ UNCHANGED <<nas, nasFile, nextFileId, others>>
    /\ IF ok
       THEN /\ vectors' = VectorDelete(vectors, Range(loc[p].file.vectorIds))
            /\ Goto(p, "rm_row", loc[p])
       ELSE /\ UNCHANGED vectors
            /\ Finish(p, DependencyFailure)

\* prisma.nasFile.delete({ where: { id: file.id } }): throws when the row is
\* gone (a concurrent removal deleted it first) and when a FileAccessLog row
\* refers to it (FileAccessLog_fileId_fkey, ON DELETE RESTRICT).
RemoveRow(p, ok) ==
    /\ pc[p] = "rm_row"
    /\ UNCHANGED <<nas, vectors, nextFileId, others>>
    /\ LET rows == {r \in nasFile : r.id = loc[p].file.id}
           logged == \E k \in DOMAIN fileAccessLog :
                        fileAccessLog[k].fileId = loc[p].file.id
       IN
       IF ok /\ rows # {} /\ ~logged
       THEN /\ nasFile' = nasFile \ rows
            /\ Finish(p, Ok)
       ELSE /\ UNCHANGED nasFile
            /\ Finish(p, DependencyFailure)

(***************************************************************************)
(* SearchService.getFileByPath(filePath, userId)                           *)
(***************************************************************************)
\* throw new Error('File not found or access denied')
AccessDenied == Err("File not found or access denied")

\* A permission check that forgets the owner.
GetFileLookupAnyOwner(rows, filePath, userId) ==
    {r \in rows : r.filePath = filePath}

\* The permission check: nasFile.findFirst({ where: { filePath, userId } })
GetFileLookup(rows, filePath, userId) == FindNasFile(rows, filePath, userId)

\* A getFileByPath(filePath, userId) request arrives.
GetFileStart(p, filePath, userId) ==
    /\ pc[p] = "idle"
    /\ Len(fileAccessLog) < MaxAccessLogs
    /\ UNCHANGED stores
    /\ ret' = [ret EXCEPT ![p] = NoRet]
    /\ pc' = [pc EXCEPT ![p] = "gf_find"]
    /\ loc' = [loc EXCEPT ![p] = [op |-> "getFileByPath",
                                  filePath |-> filePath, userId |-> userId]]

\* findFirst, then if (!fileRecord) throw.
GetFileFind(p) ==
    /\ pc[p] = "gf_find"
    /\ UNCHANGED stores
    /\ LET found == GetFileLookup(nasFile, loc[p].filePath, loc[p].userId) IN
       IF found = {}
       THEN Finish(p, AccessDenied)
       ELSE \E file \in found :
              Goto(p, "gf_read",
                   [op |-> "getFileByPath", filePath |-> loc[p].filePath,
                    userId |-> loc[p].userId, file |-> file])

\* const content = await this.nas.readFile(filePath)
GetFileRead(p, ok) ==
    /\ pc[p] = "gf_read"
    /\ UNCHANGED stores
    /\ IF ok /\ loc[p].filePath \in DOMAIN nas
       THEN Goto(p, "gf_log", loc[p])
       ELSE Finish(p, DependencyFailure)

\* The SearchResult getFileByPath resolves with: columns of fileRecord and
\* the content of the blob at filePath.
GetFileResult(l) == Returned("file", l.file.userId, l.filePath.owner)

\* logFileAccess, first write: fileAccessLog.create. A failure is caught
\* and logged, and getFileByPath returns its result.
GetFileLog(p, ok) ==
    /\ pc[p] = "gf_log"
    /\ UNCHANGED <<nas, nasFile, nextFileId, vectors, conversation, message,
                   tag, conversationTag,
                   searchQuery, triggers>>
    /\ IF ok /\ \E r \in nasFile : r.id = loc[p].file.id
       THEN /\ fileAccessLog' = Append(fileAccessLog,
                  [userId |-> loc[p].userId, fileId |-> loc[p].file.id,
                   accessType |-> "direct"])
            /\ Goto(p, "gf_touch", loc[p])
       ELSE /\ UNCHANGED fileAccessLog
            /\ Finish(p, GetFileResult(loc[p]))

\* logFileAccess, second write: nasFile.update({ lastAccessed }). A failure
\* is caught and logged.
GetFileTouch(p, ok) ==
    /\ pc[p] = "gf_touch"
    /\ UNCHANGED <<nas, nextFileId, vectors, others>>
    /\ nasFile' = IF ok
                  THEN {IF r.id = loc[p].file.id
                        THEN [r EXCEPT !.lastAccessed = TRUE] ELSE r :
                            r \in nasFile}
                  ELSE nasFile
    /\ Finish(p, GetFileResult(loc[p]))

(***************************************************************************)
(* MemoryService.saveConversation(messages, userId, metadata?)             *)
(***************************************************************************)
\* Topics the analysis of a conversation can come up with.
Topics == {"ai"}

\* PineconeStore.addDocuments(documents) is given no ids: the store draws a
\* fresh uuid for every document. The uuid of document i of the call that
\* saves conversation c of user u.
StoreVectorId(c, u, i) == [uuid |-> [conv |-> c, user |-> u], chunk |-> i]

\* `vec_${conversation.id}_${i}`
DeclaredVectorId(c, i) == [vec |-> c, chunk |-> i]

\* Metadata of a document that has no file behind it.
NoPath == [none |-> TRUE]

\* Any awaited call of saveConversation throws: catch, log, rethrow.
SaveThrow(p) == Finish(p, DependencyFailure)

\* Steps 1-3: analyzeConversation, prisma.conversation.create and
\* extractEntities (the two model calls fall back to defaults and do not
\* throw). n messages that createConversationDocuments packs into docs
\* documents.
SaveCreate(p, userId, n, docs, topics, ok) ==
    /\ pc[p] = "idle"
    /\ UNCHANGED <<nas, nasFile, nextFileId, vectors, message, tag,
                   conversationTag, fileAccessLog,
                   searchQuery, triggers>>
    /\ IF ok
       THEN LET c == ConvId(Cardinality(conversation) + 1) IN
            /\ Cardinality(conversation) < MaxConversations
            /\ conversation' = conversation \cup
                  {[id |-> c, userId |-> userId, messageCount |-> n,
                    summary |-> "analysis", followUp |-> FALSE]}
            /\ Goto(p, IF topics # {} THEN "sv_tags" ELSE "sv_messages",
                    [op |-> "saveConversation", userId |-> userId, n |-> n,
                     docs |-> docs, topics |-> topics, conversationId |-> c,
                     filePath |-> ConversationPath(userId, c)])
       ELSE /\ UNCHANGED conversation
            /\ SaveThrow(p)

\* tagConversationWithTopics: prisma.tag.upsert of every topic.
SaveTagUpsert(p, ok) ==
    /\ pc[p] = "sv_tags"
    /\ UNCHANGED <<nas, nasFile, nextFileId, vectors, conversation, message,
                   conversationTag, fileAccessLog,
                   searchQuery, triggers>>
    /\ IF ok
       THEN /\ tag' = tag \cup {[name |-> t, userId |-> loc[p].userId] :
                                    t \in loc[p].topics}
            /\ Goto(p, "sv_taglink", loc[p])
       ELSE /\ UNCHANGED tag
            /\ SaveThrow(p)

\* tagConversationWithTopics: prisma.conversationTag.createMany
SaveTagLink(p, ok) ==
    /\ pc[p] = "sv_taglink"
    /\ UNCHANGED <<nas, nasFile, nextFileId, vectors, conversation, message,
                   tag, fileAccessLog,
                   searchQuery, triggers>>
    /\ IF ok
       THEN /\ conversationTag' = conversationTag \cup
                  {[conversationId |-> loc[p].conversationId, name |-> t,
                    userId |-> loc[p].userId] : t \in loc[p].topics}
            /\ Goto(p, "sv_messages", loc[p])
       ELSE /\ UNCHANGED conversationTag
            /\ SaveThrow(p)

\* Step 5: prisma.message.createMany
SaveMessages(p, ok) ==
    /\ pc[p] = "sv_messages"
    /\ UNCHANGED <<nas, nasFile, nextFileId, vectors, conversation, tag,
                   conversationTag, fileAccessLog,
                   searchQuery, triggers>>
    /\ IF ok
       THEN /\ message' = message \cup
                  {[conversationId |-> loc[p].conversationId, index |-> i,
                    vectorId |-> DeclaredVectorId(loc[p].conversationId, i)] :
                       i \in 0..(loc[p].n - 1)}
            /\ Goto(p, "sv_write", loc[p])
       ELSE /\ UNCHANGED message
            /\ SaveThrow(p)

\* Steps 6-7: this.nas.writeFile(filePath, JSON.stringify(fileContent))
SaveWriteFile(p, ok) ==
    /\ pc[p] = "sv_write"
    /\ UNCHANGED <<nasFile, nextFileId, vectors, others>>
    /\ IF ok
       THEN LET l == loc[p] IN
            /\ nas' = [q \in (DOMAIN nas) \cup {l.filePath} |->
                          IF q = l.filePath
                          THEN ConversationContent(l.conversationId, l.userId, l.n)
                          ELSE nas[q]]
            /\ Goto(p, "sv_vectors", l)
       ELSE /\ UNCHANGED nas
            /\ SaveThrow(p)

\* Steps 8-9: createConversationDocuments, langchain.addDocumentsToPinecone
SaveAddDocuments(p, ok) ==
    /\ pc[p] = "sv_vectors"
    /\ UNCHANGED <<nas, nasFile, nextFileId, others>>
    /\ IF ok
       THEN LET l == loc[p] IN
            /\ vectors' = VectorUpsert(vectors,
                  {StoreVectorId(l.conversationId, l.userId, i) :
                       i \in 0..(l.docs - 1)},
                  ChunkMetadata(l.filePath, l.userId, l.conversationId))
            /\ Goto(p, "sv_file", l)
       ELSE /\ UNCHANGED vectors
            /\ SaveThrow(p)

\* Step 10: nas.getFileChecksum(filePath), prisma.nasFile.create with
\* vectorIds: documents.map((_, i) => `vec_${conversation.id}_${i}`).
\* The insert fails on a row of the same (userId, filePath).
SaveCreateFile(p, ok) ==
    /\ pc[p] = "sv_file"
    /\ UNCHANGED <<nas, vectors, others>>
    /\ LET l == loc[p] IN
       IF /\ ok
          /\ l.filePath \in DOMAIN nas
          /\ FindNasFile(nasFile, l.filePath, l.userId) = {}
       THEN /\ nextFileId <= MaxFileRows
            /\ nasFile' = nasFile \cup
                 {NasFileCreate(nextFileId, l.filePath, l.userId,
                      [checksum |-> Checksum(nas[l.filePath]),
                       type |-> "conversation",
                       title |-> [text |-> "Conversation on"],
                       summary |-> [analysis |-> l.conversationId]],
                      [k \in 1..l.docs |->
                           DeclaredVectorId(l.conversationId, k - 1)],
                      l.conversationId)}
            /\ nextFileId' = nextFileId + 1
            /\ Goto(p, "sv_followup", l)
       ELSE /\ UNCHANGED <<nasFile, nextFileId>>
            /\ SaveThrow(p)

\* Step 11: generateFollowUpQuestions (an empty list on failure) and, for
\* a list that is not empty, prisma.conversation.update; then return.
SaveFollowUp(p, questions, ok) ==
    /\ pc[p] = "sv_followup"
    /\ UNCHANGED <<nas, nasFile, nextFileId, vectors, message, tag,
                   conversationTag, fileAccessLog,
                   searchQuery, triggers>>
    /\ IF ~questions
       THEN /\ UNCHANGED conversation
            /\ Finish(p, Ok)
       ELSE IF ok
       THEN /\ conversation' =
                  {IF c.id = loc[p].conversationId
                   THEN [c EXCEPT !.followUp = TRUE] ELSE c : c \in conversation}
            /\ Finish(p, Ok)
       ELSE /\ UNCHANGED conversation
            /\ SaveThrow(p)

\* services/memory/memory.service.ts, saveConversation(message, userId):
\* the handler makes up the conversation id, splits the one message into
\* docs documents and awaits vectorStore.addDocuments(documents); it writes
\* neither catalog nor blob store.
SaveDirect(p, userId, c, docs, ok) ==
    /\ pc[p] = "idle"
    /\ UNCHANGED <<nas, nasFile, nextFileId, others>>
    /\ IF ok
       THEN /\ vectors' = VectorUpsert(vectors,
                  {StoreVectorId(c, userId, i) : i \in 0..(docs - 1)},
                  ChunkMetadata(NoPath, userId, c))
            /\ Finish(p, Ok)
       ELSE /\ UNCHANGED vectors
            /\ SaveThrow(p)

(***************************************************************************)
(* MemoryService.generateSummary(conversationId)                           *)
(***************************************************************************)
\* A generateSummary(conversationId) request made on behalf of caller.
GenStart(p, caller, conversationId) ==
    /\ pc[p] = "idle"
    /\ UNCHANGED stores
    /\ ret' = [ret EXCEPT ![p] = NoRet]
    /\ pc' = [pc EXCEPT ![p] = "gs_find"]
    /\ loc' = [loc EXCEPT ![p] = [op |-> "generateSummary", caller |-> caller,
                                  conversationId |-> conversationId]]

\* conversation.findUnique({ where: { id }, include: { nasFiles: true } });
\* nasFiles[0] is any of the rows that refer to the conversation.
GenFind(p) ==
    /\ pc[p] = "gs_find"
    /\ UNCHANGED stores
    /\ LET found == {c \in conversation : c.id = loc[p].conversationId}
           files == {r \in nasFile : r.conversationId = loc[p].conversationId}
       IN IF found = {} \/ files = {}
          THEN Finish(p, Err("Conversation not found"))
          ELSE \E c \in found, f \in files :
                 Goto(p, "gs_read",
                      [op |-> "generateSummary", caller |-> loc[p].caller,
                       conversationId |-> c.id, userId |-> c.userId,
                       filePath |-> f.filePath])

\* nas.readFile(nasFiles[0].filePath), JSON.parse(content) and the summary
\* made of data.messages; a blob that is no conversation JSON throws.
GenRead(p, ok) ==
    /\ pc[p] = "gs_read"
    /\ UNCHANGED stores
    /\ IF /\ ok
          /\ loc[p].filePath \in DOMAIN nas
          /\ nas[loc[p].filePath].kind = "conversation"
       THEN Goto(p, "gs_update", loc[p])
       ELSE Finish(p, DependencyFailure)

\* prisma.conversation.update({ where: { id }, data: { summary } })
GenUpdate(p, ok) ==
    /\ pc[p] = "gs_update"
    /\ UNCHANGED <<nas, nasFile, nextFileId, vectors, message, tag,
                   conversationTag, fileAccessLog,
                   searchQuery, triggers>>
    /\ IF ok
       THEN /\ conversation' =
                  {IF c.id = loc[p].conversationId
                   THEN [c EXCEPT !.summary = "generated"] ELSE c :
                       c \in conversation}
            /\ Goto(p, "gs_write", loc[p])
       ELSE /\ UNCHANGED conversation
            /\ Finish(p, DependencyFailure)

\* this.nas.writeFile(summaryPath, summary)
GenWrite(p, ok) ==
    /\ pc[p] = "gs_write"
    /\ UNCHANGED <<nasFile, nextFileId, vectors, others>>
    /\ IF ok
       THEN LET f == SummaryPath(loc[p].userId, loc[p].conversationId) IN
            /\ nas' = [q \in (DOMAIN nas) \cup {f} |->
                          IF q = f THEN SummaryContent(loc[p].conversationId)
                          ELSE nas[q]]
            /\ Goto(p, "gs_index", loc[p])
       ELSE /\ UNCHANGED nas
            /\ Finish(p, DependencyFailure)

\* this.indexer.indexFile(summaryPath, conversation.userId, conversationId),
\* after which generateSummary returns the summary it made of the blob.
GenIndex(p, ok) ==
    /\ pc[p] = "gs_index"
    /\ IndexBegin(p, SummaryPath(loc[p].userId, loc[p].conversationId),
                  loc[p].userId, loc[p].conversationId,
                  [op |-> "generateSummary", caller |-> loc[p].caller,
                   result |-> Returned("summary", loc[p].userId,
                                       loc[p].filePath.owner)],
                  ok)

(***************************************************************************)
(* QueryParser.parseQuery(userQuery)                                       *)
(***************************************************************************)
\* new Date(): today, as a day number since 1970-01-01.
Today == 20000

\* The time value of a Date is at most 8.64e15 ms from the epoch on either
\* side, 100,000,000 days; a Date set beyond that is an Invalid Date.
MaxDateDay == 100000000

\* The numbers \d+ of "last <n> days" that queries carry.
Amounts == {7, 200000000}

Units == {"day", "week", "month"}

\* A user query, told by what the patterns of parseWithPatterns find in it:
\*   tag       tagged? (as|with) "<name>": the name, '' when there is none
\*   semantic  one of the semantic indicators ('about', 'regarding', ...)
\*   date      "on": (from|on|at) YYYY-MM-DD; "last": last <amount> <unit>s
\*   fileType  (all|get|show|find) conversations / summaries / proposals
\*   count     'count' or 'how many'
Queries ==
    [tag : {"", "important"}, semantic : BOOLEAN,
     date : {"none", "on", "last"},
     amount : Amounts, unit : Units,
     fileType : {"none", "conversation", "summary", "proposal"},
     count : BOOLEAN]

\* The value an absent field of an Intent has.
Absent == [none |-> TRUE]

Intent(type, query, filters, aggregation) ==
    [type |-> type, query |-> query, filters |-> filters,
     aggregation |-> aggregation]

\* parseQuery resolves with an intent.
Parsed(intent) == [status |-> "ok", intent |-> intent]

\* The fallback of parseWithAI: { type: 'semantic', query: userQuery }
SemanticFallback(q) == Intent("semantic", [raw |-> q], Absent, Absent)

\* A Date whose time value is NaN.
InvalidDate == [nan |-> TRUE]

\* calculateDateOffset: setDate / setMonth of today's date. The Date it
\* returns is told by its day number; a month is counted as 30 days. The
\* date is invalid once amount * days is more than MaxDateDay before the
\* epoch (the test divides, as the product need not fit the model's
\* integers).
calculateDateOffset(amount, unit) ==
    LET days == CASE unit = "day" -> 1 [] unit = "week" -> 7
                  [] unit = "month" -> 30
    IN IF amount > (MaxDateDay + Today) \div days
       THEN InvalidDate
       ELSE [day |-> Today - amount * days]

\* The handler of /last\s+(\d+)\s+(day|week|month)s?/: start.toISOString()
\* throws RangeError for an Invalid Date.
LastDateRange(q) ==
    LET start == calculateDateOffset(q.amount, q.unit) IN
    IF start # InvalidDate
    THEN Parsed(Intent("structured", Absent,
                       [dateRange |-> [start |-> [iso |-> start],
                                       end |-> [iso |-> [day |-> Today]]]],
                       Absent))
    ELSE Err("RangeError: Invalid time value")

\* No pattern matched: parseWithPatterns returns null.
NoPattern == [status |-> "null"]

\* The categories of patterns, in the order parseWithPatterns tests them.
CodeOrder ==
    <<"tag", "semantic", "explicit date", "relative date", "file type",
      "aggregation">>

\* Whether the query has a match of the category.
Matches(q, cat) ==
    CASE cat = "tag" -> q.tag # ""
      [] cat = "semantic" -> q.semantic
      [] cat = "explicit date" -> q.date = "on"
      [] cat = "relative date" -> q.date = "last"
      [] cat = "file type" -> q.fileType # "none"
      [] cat = "aggregation" -> q.count

\* What the branch of a category returns.
PatternResult(q, cat) ==
    CASE cat = "tag" ->
           Parsed(Intent("structured", Absent, [tags |-> <<q.tag>>], Absent))
      [] cat = "semantic" ->
           Parsed(Intent("semantic", [raw |-> q], Absent, Absent))
      [] cat = "explicit date" ->
           Parsed(Intent("structured", Absent,
                         [dateRange |-> [start |-> [match |-> 1],
                                         end |-> [match |-> 1]]], Absent))
      [] cat = "relative date" -> LastDateRange(q)
      [] cat = "file type" ->
           Parsed(Intent("structured", Absent, [fileType |-> q.fileType], Absent))
      [] cat = "aggregation" ->
           Parsed(Intent("structured", Absent, Absent, [aggregation |-> "count"]))

\* The categories tested in another order: the result of the first one, in
\* that order, that the query matches.
PatternsInOrder(order, q) ==
    LET hits == {k \in DOMAIN order : Matches(q, order[k])} IN
    IF hits = {} THEN NoPattern
    ELSE PatternResult(q, order[CHOOSE k \in hits : \A j \in hits : k <= j])

\* File type patterns tested before the date patterns.
parseWithPatternsFileTypeFirst(q) ==
    PatternsInOrder(<<"tag", "semantic", "file type", "explicit date",
                      "relative date", "aggregation">>, q)

\* The tag pattern tested after the semantic indicators.
parseWithPatternsSemanticFirst(q) ==
    PatternsInOrder(<<"semantic", "tag", "explicit date", "relative date",
                      "file type", "aggregation">>, q)

\* The semantic indicators tested after the file type patterns.
parseWithPatternsSemanticLate(q) ==
    PatternsInOrder(<<"tag", "explicit date", "relative date", "file type",
                      "semantic", "aggregation">>, q)

\* parseWithPatterns, in the order of its tests: tag, semantic indicator,
\* date patterns, file type patterns, aggregation.
parseWithPatterns(q) ==
    IF q.tag # ""
    THEN Parsed(Intent("structured", Absent, [tags |-> <<q.tag>>], Absent))
    ELSE IF q.semantic
    THEN Parsed(Intent("semantic", [raw |-> q], Absent, Absent))
    ELSE IF q.date = "on"
    THEN Parsed(Intent("structured", Absent,
                       [dateRange |-> [start |-> [match |-> 1],
                                       end |-> [match |-> 1]]], Absent))
    ELSE IF q.date = "last"
    THEN LastDateRange(q)
    ELSE IF q.fileType # "none"
    THEN Parsed(Intent("structured", Absent, [fileType |-> q.fileType], Absent))
    ELSE IF q.count
    THEN Parsed(Intent("structured", Absent, Absent, [aggregation |-> "count"]))
    ELSE NoPattern

\* How the chat completion of parseWithAI ends.
AIOutcomes ==
    {"intent", "request failed", "timeout", "no function call",
     "invalid JSON", "schema mismatch"}

\* An intent that satisfies QueryIntentSchema, as the model returns it.
AIIntents(q) ==
    {Intent(t, [raw |-> q], f, Absent) :
        t \in {"semantic", "structured", "hybrid"},
        f \in {Absent, [fileType |-> "text"],
               [dateRange |-> [start |-> [iso |-> 1], end |-> [iso |-> 2]]]}}

\* A parseQuery(userQuery) request arrives.
ParseStart(p, q) ==
    /\ pc[p] = "idle"
    /\ UNCHANGED stores
    /\ ret' = [ret EXCEPT ![p] = NoRet]
    /\ pc' = [pc EXCEPT ![p] = "pq_patterns"]
    /\ loc' = [loc EXCEPT ![p] = [op |-> "parseQuery", query |-> q]]

\* const patternResult = this.parseWithPatterns(userQuery); an exception
\* of parseWithPatterns rejects the promise of parseQuery.
ParsePatterns(p) ==
    /\ pc[p] = "pq_patterns"
    /\ UNCHANGED stores
    /\ LET patternResult == parseWithPatterns(loc[p].query) IN
       IF patternResult = NoPattern
       THEN Goto(p, "pq_ai", loc[p])
       ELSE Finish(p, patternResult)

\* parseWithAI: the completion, JSON.parse and QueryIntentSchema.parse
\* inside try; the catch returns the semantic fallback.
ParseAI(p, outcome) ==
    /\ pc[p] = "pq_ai"
    /\ UNCHANGED stores
    /\ IF outcome = "intent"
       THEN \E i \in AIIntents(loc[p].query) : Finish(p, Parsed(i))
       ELSE Finish(p, Parsed(SemanticFallback(loc[p].query)))

(***************************************************************************)
(* SearchService.search(query, userId, options?)                           *)
(***************************************************************************)
\* query: the text; vectorResults: what similaritySearch returned, each
\* document with the similarity the index ranked it by (similaritySearch
\* returns the documents without it); filePaths: the matched paths;
\* fileRecords, k, results: the locals of retrieveFileContents, k the
\* position in filePaths of the callback that runs.
SearchLocals(q, userId, limit) ==
    [op |-> "search", query |-> q, userId |-> userId, limit |-> limit,
     intent |-> Absent, vectorResults |-> <<>>, semanticPaths |-> <<>>,
     structuredPaths |-> <<>>, filePaths |-> <<>>, fileRecords |-> {}, k |-> 1, results |-> <<>>]

\* What the promise of parseQuery(query) settles with: the pattern result
\* or, without one, what parseWithAI returns.
parseQuery(q) ==
    IF parseWithPatterns(q) # NoPattern
    THEN {parseWithPatterns(q)}
    ELSE {Parsed(i) : i \in AIIntents(q) \cup {SemanticFallback(q)}}

\* options?.limit || fallback: an omitted limit and a limit of 0 alike.
LimitOr(limit, fallback) == IF limit = 0 THEN fallback ELSE limit

Take(s, n) == SubSeq(s, 1, IF n < Len(s) THEN n ELSE Len(s))

\* The elements of s at the positions of keep, from position k on.
RECURSIVE KeepFrom(_, _, _)
KeepFrom(s, keep, k) ==
    IF k > Len(s) THEN <<>>
    ELSE (IF k \in keep THEN <<s[k]>> ELSE <<>>) \o KeepFrom(s, keep, k + 1)

\* The keys of a Map in insertion order: each element of s once, at its
\* first position.
MapKeys(s) ==
    KeepFrom(s, {k \in DOMAIN s : \A j \in 1..(k - 1) : s[j] # s[k]}, 1)

\* Array.prototype.sort((a, b) => score(b) - score(a)) of the keys of a
\* Map: descending by score, equal scores in insertion order.
SortByScore(keys, score) ==
    LET before(i, j) == \/ score[keys[i]] > score[keys[j]]
                        \/ score[keys[i]] = score[keys[j]] /\ i < j
        rank(i) == 1 + Cardinality({j \in DOMAIN keys : before(j, i)})
    IN [n \in DOMAIN keys |-> keys[CHOOSE i \in DOMAIN keys : rank(i) = n]]

\* index.query: the documents of the filter, the topK most similar first.
\* The similarity of a document to a query is the embedding model's.
VectorHits(index, userId, topK) ==
    LET ids == {id \in DOMAIN index : index[id].userId = userId}
        n == IF topK < Cardinality(ids) THEN topK ELSE Cardinality(ids)
        orders == {o \in [1..n -> ids] :
                     \A i, j \in 1..n : i # j => o[i] # o[j]}
        ranked == {x \in [1..n -> Similarities] :
                     \A i, j \in 1..n : i < j => x[i] >= x[j]}
    IN {[k \in 1..n |-> [filePath |-> index[order[k]].filePath,
                         similarity |-> sims[k]]] :
            order \in orders, sims \in ranked}

\* semanticSearch after its await: pathScores keeps per path the maximum of
\* (result as any).score || 0, a field the documents do not have, so every
\* score is 0 and the sort keeps the order of the index.
semanticSearch(vectorResults, limit) ==
    LET paths == MapKeys([k \in DOMAIN vectorResults |->
                             vectorResults[k].filePath])
        pathScores == [f \in Range(paths) |-> 0]
    IN Take(SortByScore(paths, pathScores), LimitOr(limit, defaultLimit))

\* The tags column of a row: extractFileMetadata gives a summary the tag
\* 'summary' and a text no tag.
RowTags(r) == IF r.fileType = "summary" THEN {"summary"} ELSE {}

\* The rows a where clause of structuredSearch can select: userId, and the
\* filter of the intent. createdAt is not kept by the rows, so a dateRange
\* selects any of the user's rows.
StructuredMatches(rows, filters, userId) ==
    LET mine == {r \in rows : r.userId = userId} IN
    IF "fileType" \in DOMAIN filters
    THEN {{r \in mine : r.fileType = filters.fileType}}
    ELSE IF "tags" \in DOMAIN filters
    THEN {{r \in mine : Range(filters.tags) \subseteq RowTags(r)}}
    ELSE SUBSET mine

\* orderBy createdAt desc, take limit, map to filePath. Rows are created
\* in the order of their ids.
structuredSearch(selected, limit) ==
    LET ids == {r.id : r \in selected}
        byAge == [n \in 1..Cardinality(ids) |->
                     CHOOSE i \in ids :
                         Cardinality({j \in ids : j > i}) = n - 1]
    IN Take([n \in DOMAIN byAge |->
                (CHOOSE r \in selected : r.id = byAge[n]).filePath],
            LimitOr(limit, defaultLimit))

\* (length - index) / length * weight, in ScoreUnit-ths; weight is 1.5 for
\* the semantic paths and 0.5 for the structured ones.
RankScore(len, k, weight) == ((len - (k - 1)) * weight) \div len

\* hybridSearch after Promise.all: the rank scores of the two lists are
\* summed per path, the paths sorted by the sum and cut to the limit.
hybridMerge(vectorResults, semanticPaths, structuredPaths, limit) ==
    LET keys == MapKeys(semanticPaths \o structuredPaths)
        pos(s, f) == CHOOSE k \in DOMAIN s : s[k] = f
        pathScores == [f \in Range(keys) |->
            (IF f \in Range(semanticPaths)
             THEN RankScore(Len(semanticPaths), pos(semanticPaths, f),
                            semanticWeight)
             ELSE 0)
            + (IF f \in Range(structuredPaths)
               THEN RankScore(Len(structuredPaths), pos(structuredPaths, f),
                              structuredWeight)
               ELSE 0)]
    IN Take(SortByScore(keys, pathScores), LimitOr(limit, defaultLimit))

\* filters.fileType of undefined filters
FiltersTypeError == Err("TypeError: Cannot read properties of undefined")

\* A search(query, userId, { limit }) request arrives.
SearchStart(p, q, userId, limit) ==
    /\ pc[p] = "idle"
    /\ Len(fileAccessLog) < MaxAccessLogs
    /\ Len(searchQuery) < MaxSearchQueries
    /\ UNCHANGED stores
    /\ ret' = [ret EXCEPT ![p] = NoRet]
    /\ pc' = [pc EXCEPT ![p] = "sr_parse"]
    /\ loc' = [loc EXCEPT ![p] = SearchLocals(q, userId, limit)]

\* const intent = await this.queryParser.parseQuery(query), and the switch
\* up to the first await of the search it selects. structuredSearch reads
\* filters.fileType first: without filters it throws, and so does
\* hybridSearch, whose Promise.all rejects with it.
SearchParse(p) ==
    /\ pc[p] = "sr_parse"
    /\ UNCHANGED stores
    /\ \E r \in parseQuery(loc[p].query) :
         IF r.status # "ok"
         THEN Finish(p, r)
         ELSE LET l == [loc[p] EXCEPT !.intent = r.intent] IN
              IF r.intent.type = "semantic"
              THEN Goto(p, "sr_vector", l)
              ELSE IF r.intent.filters = Absent
              THEN Finish(p, FiltersTypeError)
              ELSE IF r.intent.type = "structured"
              THEN Goto(p, "sr_rows", l)
              ELSE Goto(p, "sr_vector", l)

\* semanticSearch: await this.vectorStore.similaritySearch(query,
\* limit || 20, { userId }), then the paths by score.
SearchVector(p, ok) ==
    /\ pc[p] = "sr_vector"
    /\ UNCHANGED stores
    /\ IF ~ok
       THEN Finish(p, DependencyFailure)
       ELSE \E hits \in VectorHits(vectors, loc[p].userId,
                                   LimitOr(loc[p].limit, defaultTopK)) :
            LET paths == semanticSearch(hits, loc[p].limit) IN
            IF loc[p].intent.type = "semantic"
            THEN Goto(p, "sr_records", [loc[p] EXCEPT !.vectorResults = hits,
                                                      !.filePaths = paths])
            ELSE Goto(p, "sr_rows", [loc[p] EXCEPT !.vectorResults = hits,
                                                   !.semanticPaths = paths])

\* structuredSearch: await this.prisma.nasFile.findMany(...); for a hybrid
\* intent the merge of hybridSearch follows.
SearchRows(p, ok) ==
    /\ pc[p] = "sr_rows"
    /\ UNCHANGED stores
    /\ IF ~ok
       THEN Finish(p, DependencyFailure)
       ELSE \E selected \in StructuredMatches(nasFile, loc[p].intent.filters,
                                              loc[p].userId) :
            LET paths == structuredSearch(selected, loc[p].limit) IN
            IF loc[p].intent.type = "structured"
            THEN Goto(p, "sr_records", [loc[p] EXCEPT !.filePaths = paths])
            ELSE Goto(p, "sr_records",
                      [loc[p] EXCEPT !.structuredPaths = paths, !.filePaths =
                          hybridMerge(loc[p].vectorResults,
                                      loc[p].semanticPaths, paths,
                                      loc[p].limit)])

\* The callback of retrieveFileContents goes on to the next path, and
\* after the last one search goes on to logSearchQuery. Promise.allSettled
\* keeps every fulfilled value, null included.
NextPath(p, l, value) ==
    LET m == [l EXCEPT !.results = Append(l.results, value), !.k = l.k + 1]
    IN Goto(p, IF l.k = Len(l.filePaths) THEN "sr_log" ELSE "sr_read", m)

\* retrieveFileContents: await this.prisma.nasFile.findMany({ where:
\* { filePath: { in: filePaths }, userId } }). The locals of the search
\* that found the paths are gone.
SearchRecords(p, ok) ==
    /\ pc[p] = "sr_records"
    /\ UNCHANGED stores
    /\ IF ~ok
       THEN Finish(p, DependencyFailure)
       ELSE LET l == [loc[p] EXCEPT
                        !.vectorResults = <<>>, !.semanticPaths = <<>>,
                        !.structuredPaths = <<>>,
                        !.fileRecords =
                            {r \in nasFile :
                                /\ r.filePath \in Range(loc[p].filePaths)
                                /\ r.userId = loc[p].userId}]
            IN Goto(p, IF l.filePaths = <<>> THEN "sr_log" ELSE "sr_read", l)

\* The value of a callback that found no record or could not read.
Null == [null |-> TRUE]

\* The SearchResult of a callback: columns of fileRecord and the content of
\* the blob at filePath.
SearchResult(fileRecord) ==
    [path |-> fileRecord.filePath, rowOwner |-> fileRecord.userId,
     blobOwner |-> fileRecord.filePath.owner]

\* The record of the path the callback runs for.
FileRecordOf(l) == {r \in l.fileRecords : r.filePath = l.filePaths[l.k]}

\* A logFileAccess without its try/catch: the failure reaches the catch of
\* the callback.
AfterLogFileAccessUncaught(fileRecord) == Null

\* The value a callback resolves with after logFileAccess, whose catch
\* swallows the failure of either write.
AfterLogFileAccess(fileRecord) == SearchResult(fileRecord)

\* One callback of retrieveFileContents: fileMap.get(filePath), then
\* await this.nas.readFile(filePath) inside try.
SearchRead(p, ok) ==
    /\ pc[p] = "sr_read"
    /\ UNCHANGED stores
    /\ IF FileRecordOf(loc[p]) = {}
       THEN NextPath(p, loc[p], Null)
       ELSE IF ok /\ loc[p].filePaths[loc[p].k] \in DOMAIN nas
       THEN Goto(p, "sr_access", loc[p])
       ELSE NextPath(p, loc[p], Null)

\* logFileAccess(fileRecord.id, userId, 'search'), first write.
SearchAccess(p, ok) ==
    /\ pc[p] = "sr_access"
    /\ UNCHANGED <<nas, nasFile, nextFileId, vectors, conversation, message,
                   tag, conversationTag, searchQuery, triggers>>
    /\ \E fileRecord \in FileRecordOf(loc[p]) :
         IF ok /\ \E r \in nasFile : r.id = fileRecord.id
         THEN /\ fileAccessLog' = Append(fileAccessLog,
                    [userId |-> loc[p].userId, fileId |-> fileRecord.id,
                     accessType |-> "search"])
              /\ Goto(p, "sr_touch", loc[p])
         ELSE /\ UNCHANGED fileAccessLog
              /\ NextPath(p, loc[p], AfterLogFileAccess(fileRecord))

\* logFileAccess, second write: nasFile.update({ lastAccessed }).
SearchTouch(p, ok) ==
    /\ pc[p] = "sr_touch"
    /\ UNCHANGED <<nas, nextFileId, vectors, others>>
    /\ \E fileRecord \in FileRecordOf(loc[p]) :
         /\ nasFile' = IF ok
                       THEN {IF r.id = fileRecord.id
                             THEN [r EXCEPT !.lastAccessed = TRUE] ELSE r :
                                 r \in nasFile}
                       ELSE nasFile
         /\ NextPath(p, loc[p], IF ok THEN SearchResult(fileRecord)
                                ELSE AfterLogFileAccess(fileRecord))

\* What search resolves with.
SearchResults(results) ==
    [status |-> "ok", kind |-> "results", results |-> results]

\* What search settles with after logSearchQuery, whose catch swallows the
\* failure of the insert.
AfterLogSearchQuery(results) == SearchResults(results)

\* logSearchQuery(query, intent.type, filePaths, userId), then return.
SearchLog(p, ok) ==
    /\ pc[p] = "sr_log"
    /\ UNCHANGED <<nas, nasFile, nextFileId, vectors, conversation, message,
                   tag, conversationTag, fileAccessLog, triggers>>
    /\ IF ok
       THEN /\ searchQuery' = Append(searchQuery,
                  [userId |-> loc[p].userId, queryText |-> loc[p].query,
                   queryType |-> loc[p].intent.type,
                   filePaths |-> loc[p].filePaths])
            /\ Finish(p, SearchResults(loc[p].results))
       ELSE /\ UNCHANGED searchQuery
            /\ Finish(p, AfterLogSearchQuery(loc[p].results))

(***************************************************************************)
(* SearchService.search, the variant that returns what the searches find   *)
(***************************************************************************)
\* What the variant resolves with: the [text, score] pairs of the index
\* and the rows of the catalog, as they are.
RawResults(hits, rows) ==
    [status |-> "ok", kind |-> "raw", hits |-> hits, rows |-> rows]

\* A search(query, userId, { limit }) request arrives.
RawSearchStart(p, q, userId, limit) ==
    /\ pc[p] = "idle"
    /\ UNCHANGED stores
    /\ ret' = [ret EXCEPT ![p] = NoRet]
    /\ pc' = [pc EXCEPT ![p] = "rs_parse"]
    /\ loc' = [loc EXCEPT ![p] = SearchLocals(q, userId, limit)]

\* parseQuery and the switch, as in the first variant.
RawSearchParse(p) ==
    /\ pc[p] = "rs_parse"
    /\ UNCHANGED stores
    /\ \E r \in parseQuery(loc[p].query) :
         IF r.status # "ok"
         THEN Finish(p, r)
         ELSE IF r.intent.type # "semantic" /\ r.intent.filters = Absent
         THEN Finish(p, FiltersTypeError)
         ELSE Goto(p, "rs_query", [loc[p] EXCEPT !.intent = r.intent])

\* similaritySearchWithScore and nasFile.findMany, as the intent needs
\* them; the result is returned without retrieveFileContents and without
\* logSearchQuery.
RawSearchQuery(p, ok) ==
    /\ pc[p] = "rs_query"
    /\ UNCHANGED stores
    /\ IF ~ok
       THEN Finish(p, DependencyFailure)
       ELSE \E hits \in IF loc[p].intent.type = "structured" THEN {<<>>}
                        ELSE VectorHits(vectors, loc[p].userId,
                                        LimitOr(loc[p].limit, defaultLimit)),
               selected \in IF loc[p].intent.type = "semantic" THEN {{}}
                            ELSE StructuredMatches(nasFile,
                                     loc[p].intent.filters, loc[p].userId) :
              Finish(p, RawResults(hits,
                                   structuredSearch(selected, loc[p].limit)))

(***************************************************************************)
(* TriggerService.evaluateTriggers(conversationId, messages, userId)       *)
(***************************************************************************)
\* Strings are sequences of characters; the alphabet has two letters in
\* both cases, a letter without case and the blank.
Lower(c) == IF c = "T" THEN "t" ELSE IF c = "U" THEN "u" ELSE c

\* String.prototype.toLowerCase
toLowerCase(s) == [k \in DOMAIN s |-> Lower(s[k])]

\* String.prototype.includes
includes(s, t) ==
    \E k \in 0..(Len(s) - Len(t)) : SubSeq(s, k + 1, k + Len(t)) = t

\* Array.prototype.join(' ')
RECURSIVE Join(_)
Join(ss) ==
    IF ss = <<>> THEN <<>>
    ELSE IF Len(ss) = 1 THEN ss[1]
    ELSE ss[1] \o <<" ">> \o Join(Tail(ss))

\* The contents of the messages of a conversation.
MessageContents == {<<"T">>, <<"u">>, <<"x">>}

\* The message lists of up to MaxMessages messages.
MessageLists == UNION {[1..n -> MessageContents] : n \in 0..MaxMessages}

\* An optional field of the conditions of a rule: {} when the field is
\* omitted, {v} when it is v.
Optional(values) == {{}} \cup {{v} : v \in values}

\* The conditions of length rules: bounds 0 and MaxMessages (the boundary
\* of the longest conversation) and an upper bound of 1.
LengthConditions ==
    [minMessages : Optional({0, MaxMessages}), maxMessages : Optional({0, 1})]

\* The conditions of keyword rules; matchType '' when it is omitted.
KeywordConditions ==
    [keywords : {<< <<"U">>, <<"t">> >>, << <<"t">> >>, <<>>},
     matchType : {"", "any", "all"}]

\* Interval strings: <amount><unit>; 'days' is not a unit of parseInterval.
Intervals == {[amount |-> 1, unit |-> "d"], [amount |-> 1, unit |-> "days"]}

\* The conditions of time rules: an interval, and the weekdays Monday to
\* Friday or no weekday at all.
TimeConditions ==
    [interval : Optional(Intervals), daysOfWeek : Optional({1..5, {}})]

\* Milliseconds of the units of parseInterval.
IntervalUnits ==
    [s |-> 1000, m |-> 60 * 1000, h |-> 60 * 60 * 1000,
     d |-> 24 * 60 * 60 * 1000, w |-> 7 * 24 * 60 * 60 * 1000]

\* parseInterval: /^(\d+)([smhdw])$/, else throw.
parseInterval(interval) ==
    IF interval.unit \in DOMAIN IntervalUnits
    THEN [status |-> "ok", value |-> interval.amount * IntervalUnits[interval.unit]]
    ELSE Err("Invalid interval format")

\* new Date().getDay(): the clock starts on a Sunday at 00:00.
getDay(t) == (t \div msPerDay) % 7

\* What evaluateRule resolves with.
Value(b) == [status |-> "ok", value |-> b]

\* evaluateLengthRule: a bound is applied when it is truthy: present and
\* not 0.
evaluateLengthRule(conditions, messages) ==
    LET messageCount == Len(messages) IN
    IF \E m \in conditions.minMessages : m # 0 /\ messageCount < m
    THEN FALSE
    ELSE IF \E m \in conditions.maxMessages : m # 0 /\ messageCount > m
    THEN FALSE
    ELSE TRUE

\* A keyword check that compares the keywords as they are written.
evaluateKeywordRuleCaseSensitive(conditions, messages) ==
    LET content == Join([k \in DOMAIN messages |-> toLowerCase(messages[k])])
        keywords == conditions.keywords
    IN IF conditions.matchType \in {"", "any"}
       THEN \E k \in DOMAIN keywords : includes(content, keywords[k])
       ELSE \A k \in DOMAIN keywords : includes(content, keywords[k])

\* evaluateKeywordRule
evaluateKeywordRule(conditions, messages) ==
    LET content == Join([k \in DOMAIN messages |-> toLowerCase(messages[k])])
        keywords == [k \in DOMAIN conditions.keywords |->
                        toLowerCase(conditions.keywords[k])]
        matchType == IF conditions.matchType = "" THEN "any"
                     ELSE conditions.matchType
    IN IF matchType = "any"
       THEN \E k \in DOMAIN keywords : includes(content, keywords[k])
       ELSE \A k \in DOMAIN keywords : includes(content, keywords[k])

\* A findFirst without the user in its where clause.
LastTimeTriggerAnyUser(rows, conversations, userId) ==
    LET mine == {k \in DOMAIN rows : rows[k].triggerType = "time"}
    IN {rows[k] : k \in {i \in mine :
                           \A j \in mine :
                               rows[j].triggeredAt <= rows[i].triggeredAt}}

\* findFirst({ where: { conversation: { userId }, triggerType: 'time' },
\* orderBy: { triggeredAt: 'desc' } }): the rows it can return.
LastTimeTrigger(rows, conversations, userId) ==
    LET mine == {k \in DOMAIN rows :
                    /\ rows[k].triggerType = "time"
                    /\ \E c \in conversations :
                          c.id = rows[k].conversationId /\ c.userId = userId}
    IN {rows[k] : k \in {i \in mine :
                           \A j \in mine :
                               rows[j].triggeredAt <= rows[i].triggeredAt}}

\* evaluateTimeRule after its findFirst returned lastTrigger (a set with
\* the row, or empty).
evaluateTimeRule(conditions, lastTrigger, t) ==
    LET tooSoon ==
            {parseInterval(i) : i \in conditions.interval, l \in lastTrigger}
        today == getDay(t)
    IN IF \E r \in tooSoon : r.status # "ok"
       THEN CHOOSE r \in tooSoon : r.status # "ok"
       ELSE IF \E i \in conditions.interval, l \in lastTrigger :
                  t - l.triggeredAt < parseInterval(i).value
       THEN Value(FALSE)
       ELSE IF \E days \in conditions.daysOfWeek : today \notin days
       THEN Value(FALSE)
       ELSE Value(TRUE)

\* parseActions: the typed actions of the flags of rule.actions.
parseActions(actions) ==
    (IF actions.generateSummary THEN <<"generate_summary">> ELSE <<>>)
    \o (IF actions.backup THEN <<"backup">> ELSE <<>>)
    \o (IF actions.notify THEN <<"notify">> ELSE <<>>)
    \o (IF actions.export THEN <<"export">> ELSE <<>>)
    \o (IF actions.tag THEN <<"tag">> ELSE <<>>)

\* The actions of a rule: the flags of parseActions.
RuleActions ==
    {[generateSummary |-> s, backup |-> FALSE, notify |-> FALSE,
      export |-> FALSE, tag |-> ~s] : s \in BOOLEAN}

\* The actions of the default length rule of createDefaultRules.
Summarize == {a \in RuleActions : a.generateSummary}

\* The actions of the seeded keyword rule: { tag: true, tags: ['important'] }
TagImportant == {a \in RuleActions : a.tag}

\* The keywords of the seeded keyword rule.
Important == <<"i", "m", "p", "o", "r", "t", "a", "n", "t">>

Remember == <<"r", "e", "m", "e", "m", "b", "e", "r">>

\* The user the seed script creates its rows for.
testUserId == "u1"

\* prisma/seed.ts: the two memory rules of the test user.
SeedRules ==
    {[id |-> 1, userId |-> testUserId, ruleType |-> "length",
      conditions |-> [minMessages |-> {10}, maxMessages |-> {}],
      actions |-> CHOOSE a \in Summarize : TRUE, isActive |-> TRUE],
     [id |-> 2, userId |-> testUserId, ruleType |-> "keyword",
      conditions |-> [keywords |-> <<Important, Remember>>, matchType |-> ""],
      actions |-> CHOOSE a \in TagImportant : TRUE, isActive |-> TRUE]}

\* POST /rules: prisma.memoryRule.create({ ...req.body, userId }); at most
\* MaxRules rules are created on top of the seeded ones.
CreateRule(userId, ruleType, conditions, actions, isActive) ==
    /\ Cardinality(memoryRule \ SeedRules) < MaxRules
    /\ memoryRule' = memoryRule \cup
          {[id |-> Cardinality(memoryRule) + 1, userId |-> userId,
            ruleType |-> ruleType, conditions |-> conditions,
            actions |-> actions, isActive |-> isActive]}
    /\ UNCHANGED <<nas, nasFile, nextFileId, vectors, conversation, message,
                   tag, conversationTag, fileAccessLog, searchQuery,
                   memoryTrigger, now, pc, loc, ret>>

\* Time passes.
Tick ==
    /\ now + tickMs <= MaxDays * msPerDay
    /\ now' = now + tickMs
    /\ UNCHANGED <<nas, nasFile, nextFileId, vectors, conversation, message,
                   tag, conversationTag, fileAccessLog, searchQuery,
                   memoryRule, memoryTrigger, pc, loc, ret>>

\* What evaluateTriggers resolves with.
TriggeredActions(actions) ==
    [status |-> "ok", kind |-> "actions", actions |-> actions]

\* An evaluateTriggers(conversationId, messages, userId) call starts.
EvalStart(p, conversationId, messages, userId) ==
    /\ pc[p] = "idle"
    /\ Len(memoryTrigger) < MaxTriggers
    /\ UNCHANGED stores
    /\ ret' = [ret EXCEPT ![p] = NoRet]
    /\ pc' = [pc EXCEPT ![p] = "et_rules"]
    /\ loc' = [loc EXCEPT ![p] =
                  [op |-> "evaluateTriggers", conversationId |-> conversationId,
                   messages |-> messages, userId |-> userId, rules |-> <<>>,
                   triggeredActions |-> <<>>]]

\* The loop goes on to the next rule, and returns after the last one.
NextRule(p, l) ==
    IF Len(l.rules) <= 1
    THEN Finish(p, TriggeredActions(l.triggeredActions))
    ELSE Goto(p, "et_rule", [l EXCEPT !.rules = Tail(l.rules)])

\* A findMany whose where clause leaves out isActive.
ActiveRulesOrNot(rules, userId) == {r \in rules : r.userId = userId}

\* The rows of findMany({ where: { userId, isActive: true } })
ActiveRules(rules, userId) ==
    {r \in rules : r.userId = userId /\ r.isActive}

\* const rules = await this.prisma.memoryRule.findMany({ where: { userId,
\* isActive: true } }), in the order the catalog returns them.
EvalRules(p, rules, ok) ==
    /\ pc[p] = "et_rules"
    /\ UNCHANGED stores
    /\ LET found == ActiveRules(memoryRule, loc[p].userId)
       IN /\ Len(rules) = Cardinality(found)
          /\ Range(rules) = found
    /\ IF ~ok THEN Finish(p, DependencyFailure)
       ELSE IF rules = <<>> THEN Finish(p, TriggeredActions(<<>>))
       ELSE Goto(p, "et_rule", [loc[p] EXCEPT !.rules = rules])

\* evaluateRule(rule, messages, conversationId): the switch on ruleType. A
\* time rule with an interval awaits memoryTrigger.findFirst.
evaluateRule(rule, messages, rows, conversations, t, ok) ==
    CASE rule.ruleType = "length" ->
           Value(evaluateLengthRule(rule.conditions, messages))
      [] rule.ruleType = "keyword" ->
           Value(evaluateKeywordRule(rule.conditions, messages))
      [] rule.ruleType = "time" ->
           IF rule.conditions.interval = {}
           THEN evaluateTimeRule(rule.conditions, {}, t)
           ELSE IF ~ok THEN DependencyFailure
           ELSE LET last == LastTimeTrigger(rows, conversations, rule.userId)
                IN IF last = {}
                   THEN evaluateTimeRule(rule.conditions, {}, t)
                   ELSE evaluateTimeRule(rule.conditions,
                                         {CHOOSE l \in last : TRUE}, t)
      [] OTHER -> Value(FALSE)

\* One round of the loop up to its await: if (await this.evaluateRule(rule,
\* ...)) { triggeredActions.push(...parseActions(rule.actions)); ... }
EvalRule(p, ok) ==
    /\ pc[p] = "et_rule"
    /\ UNCHANGED stores
    /\ LET rule == loc[p].rules[1]
           r == evaluateRule(rule, loc[p].messages, memoryTrigger,
                             conversation, now, ok)
       IN IF r.status # "ok"
          THEN Finish(p, r)
          ELSE IF r.value
          THEN Goto(p, "et_log",
                    [loc[p] EXCEPT !.triggeredActions =
                        loc[p].triggeredActions \o parseActions(rule.actions)])
          ELSE NextRule(p, loc[p])

\* await this.prisma.memoryTrigger.create(...): the row refers to the
\* conversation (MemoryTrigger_conversationId_fkey); a failure rejects
\* evaluateTriggers.
EvalLog(p, ok) ==
    /\ pc[p] = "et_log"
    /\ UNCHANGED <<nas, nasFile, nextFileId, vectors, conversation, message,
                   tag, conversationTag, fileAccessLog, searchQuery,
                   memoryRule, now>>
    /\ LET rule == loc[p].rules[1] IN
       IF ok /\ \E c \in conversation : c.id = loc[p].conversationId
       THEN /\ memoryTrigger' = Append(memoryTrigger,
                  [triggerType |-> rule.ruleType,
                   conversationId |-> loc[p].conversationId,
                   details |-> [ruleId |-> rule.id,
                                conditions |-> rule.conditions,
                                actions |-> rule.actions],
                   triggeredAt |-> now])
            /\ NextRule(p, loc[p])
       ELSE /\ UNCHANGED memoryTrigger
            /\ Finish(p, DependencyFailure)

(***************************************************************************)
(* Environment.                                                            *)
(***************************************************************************)
\* FileController.uploadFile: this.nas.writeFile(fullPath, content), under
\* the uploading user's own directory.
NasWrite(filePath, content) ==
    /\ nas' = [q \in (DOMAIN nas) \cup {filePath} |->
                  IF q = filePath THEN content ELSE nas[q]]
    /\ nas' # nas
    /\ UNCHANGED <<nasFile, nextFileId, vectors, others, pc, loc, ret>>

\* The server process dies: every request in flight is abandoned where it
\* is; the three stores keep what was written.
Crash ==
    /\ \E p \in Procs : pc[p] # "idle"
    /\ pc' = [p \in Procs |-> "idle"]
    /\ loc' = [p \in Procs |-> NoLoc]
    /\ ret' = [p \in Procs |-> NoRet]
    /\ UNCHANGED stores

IndexFileStep(p, paths, users) ==
    \/ \E f \in paths, u \in users, ok \in BOOLEAN :
           IndexRead(p, f, u, NoConv, ok)
    \/ \E ok \in BOOLEAN : IndexEmbed(p, ok)
    \/ \E ok \in BOOLEAN : IndexUpsertBatch(p, ok)
    \/ \E ok \in BOOLEAN : IndexCatalog(p, ok)
    \/ IndexCatch(p)

RemoveFileStep(p, paths, users) ==
    \/ \E f \in paths, u \in users : RemoveStart(p, f, u)
    \/ RemoveFind(p)
    \/ \E ok \in BOOLEAN : RemoveVectors(p, ok)
    \/ \E ok \in BOOLEAN : RemoveRow(p, ok)

Upload(paths, contents) == \E f \in paths, c \in contents : NasWrite(f, c)

\* The queries clients search with: one with a semantic indicator, one
\* with an explicit date, one with 'how many' and one that no pattern
\* matches.
SearchQueries ==
    {q \in Queries :
        /\ q.amount = 7 /\ q.unit = "day" /\ q.fileType = "none"
        /\ q.date # "last" /\ q.tag = ""
        /\ Cardinality({c \in {"semantic", "explicit date", "aggregation"} :
                           Matches(q, c)}) <= 1}

SearchStep(p, users, queries) ==
    \/ \E q \in queries, u \in users, limit \in Limits :
           SearchStart(p, q, u, limit)
    \/ SearchParse(p)
    \/ \E ok \in BOOLEAN : SearchVector(p, ok)
    \/ \E ok \in BOOLEAN : SearchRows(p, ok)
    \/ \E ok \in BOOLEAN : SearchRecords(p, ok)
    \/ \E ok \in BOOLEAN : SearchRead(p, ok)
    \/ \E ok \in BOOLEAN : SearchAccess(p, ok)
    \/ \E ok \in BOOLEAN : SearchTouch(p, ok)
    \/ \E ok \in BOOLEAN : SearchLog(p, ok)

RawSearchStep(p, users, queries) ==
    \/ \E q \in queries, u \in users, limit \in Limits :
           RawSearchStart(p, q, u, limit)
    \/ RawSearchParse(p)
    \/ \E ok \in BOOLEAN : RawSearchQuery(p, ok)

CreateRuleStep(users, ruleType, conditions, actions) ==
    \E u \in users, c \in conditions, a \in actions, isActive \in BOOLEAN :
        CreateRule(u, ruleType, c, a, isActive)

EvaluateTriggersStep(p, users, messageLists) ==
    \/ \E u \in users, k \in 1..MaxConversations, m \in messageLists :
           EvalStart(p, ConvId(k), m, u)
    \/ /\ pc[p] = "et_rules"
       /\ \E ok \in BOOLEAN :
            \E rules \in [1..Cardinality(ActiveRules(memoryRule,
                                                      loc[p].userId))
                          -> memoryRule] : EvalRules(p, rules, ok)
    \/ \E ok \in BOOLEAN : EvalRule(p, ok)
    \/ \E ok \in BOOLEAN : EvalLog(p, ok)

GetFileStep(p, paths, users) ==
    \/ \E f \in paths, u \in users : GetFileStart(p, f, u)
    \/ GetFileFind(p)
    \/ \E ok \in BOOLEAN : GetFileRead(p, ok)
    \/ \E ok \in BOOLEAN : GetFileLog(p, ok)
    \/ \E ok \in BOOLEAN : GetFileTouch(p, ok)

SaveConversationStep(p, users) ==
    \/ \E u \in users, n \in 1..MaxMessages, topics \in SUBSET Topics,
          ok \in BOOLEAN :
           \E docs \in 1..n : SaveCreate(p, u, n, docs, topics, ok)
    \/ \E ok \in BOOLEAN : SaveTagUpsert(p, ok)
    \/ \E ok \in BOOLEAN : SaveTagLink(p, ok)
    \/ \E ok \in BOOLEAN : SaveMessages(p, ok)
    \/ \E ok \in BOOLEAN : SaveWriteFile(p, ok)
    \/ \E ok \in BOOLEAN : SaveAddDocuments(p, ok)
    \/ \E ok \in BOOLEAN : SaveCreateFile(p, ok)
    \/ \E questions \in BOOLEAN, ok \in BOOLEAN : SaveFollowUp(p, questions, ok)

SaveDirectStep(p, users) ==
    \E u \in users, c \in RandomIds, docs \in 1..MaxChunks, ok \in BOOLEAN :
        SaveDirect(p, u, c, docs, ok)

GenerateSummaryStep(p, users) ==
    \/ \E u \in users, k \in 1..MaxConversations : GenStart(p, u, ConvId(k))
    \/ GenFind(p)
    \/ \E ok \in BOOLEAN : GenRead(p, ok)
    \/ \E ok \in BOOLEAN : GenUpdate(p, ok)
    \/ \E ok \in BOOLEAN : GenWrite(p, ok)
    \/ \E ok \in BOOLEAN : GenIndex(p, ok)

\* Concurrent indexFile requests of one user on one path whose content
\* changes under them (none, one or two vector batches), and crashes.
NextIndex ==
    \/ \E p \in Procs : IndexFileStep(p, {UploadPath("u1")}, {"u1"})
    \/ Upload({UploadPath("u1")}, {ShortText, LongText})
    \/ Crash

SpecIndex == Init /\ [][NextIndex]_vars

\* One request at a time: indexFile and removeFileFromIndex on every path
\* by every user.
NextIndexRemove ==
    \/ IndexFileStep("p1", UploadPaths, Users)
    \/ RemoveFileStep("p1", UploadPaths, Users)
    \/ Upload(UploadPaths, {EmptyText, ShortText})
    \/ Crash

SpecIndexRemove == Init /\ [][NextIndexRemove]_vars

\* One request at a time: files are uploaded, indexed, removed from the
\* index and read back by path, by every user on every upload path.
NextGetFile ==
    \/ IndexFileStep("p1", UploadPaths, Users)
    \/ RemoveFileStep("p1", UploadPaths, Users)
    \/ GetFileStep("p1", UploadPaths, Users)
    \/ Upload(UploadPaths, {ShortText})
    \/ Crash

SpecGetFile == Init /\ [][NextGetFile]_vars

\* One request at a time: conversations are saved, by either variant of
\* saveConversation.
NextSave ==
    \/ SaveConversationStep("p1", Users)
    \/ SaveDirectStep("p1", Users)
    \/ Crash

SpecSave == Init /\ [][NextSave]_vars

\* One request at a time of two users: u2 uploads a file and saves a
\* conversation; both users call indexFile, generateSummary and
\* getFileByPath.
NextAccess ==
    \/ Upload({UploadPath("u2")}, {ShortText})
    \/ IndexFileStep("p1", {UploadPath("u2")}, Users)
    \/ SaveConversationStep("p1", {"u2"})
    \/ GenerateSummaryStep("p1", Users)
    \/ GetFileStep("p1", {UploadPath("u2")}, Users)
    \/ Crash

SpecAccess == Init /\ [][NextAccess]_vars

ParseQueryStep(p) ==
    \/ \E q \in Queries : ParseStart(p, q)
    \/ ParsePatterns(p)
    \/ \E outcome \in AIOutcomes : ParseAI(p, outcome)

\* Queries are parsed, one at a time.
NextParse ==
    \/ ParseQueryStep("p1")
    \/ Crash

SpecParse == Init /\ [][NextParse]_vars

\* One request at a time of user u1, who indexes two files of different
\* content and searches, by either variant of search.
NextSearch ==
    \/ Upload({UploadPath("u1")}, {ShortText})
    \/ Upload({UploadPath("u2")}, {TextContent(2)})
    \/ IndexFileStep("p1", UploadPaths, {"u1"})
    \/ SearchStep("p1", {"u1"}, {q \in SearchQueries : q.date = "none"})
    \/ RawSearchStep("p1", {"u1"}, {q \in SearchQueries : q.date = "none"})

SpecSearch == Init /\ [][NextSearch]_vars

\* One request at a time of user u1, who indexes a file, searches for it
\* and reads it by its path, and crashes.
NextAudit ==
    \/ Upload({UploadPath("u1")}, {ShortText})
    \/ IndexFileStep("p1", {UploadPath("u1")}, {"u1"})
    \/ SearchStep("p1", {"u1"}, {q \in SearchQueries : ~q.count})
    \/ GetFileStep("p1", {UploadPath("u1")}, {"u1"})
    \/ Crash

SpecAudit == Init /\ [][NextAudit]_vars

\* The state after user u2 has started a conversation: the first write of
\* saveConversation.
InitTrigger ==
    /\ nas = <<>>
    /\ nasFile = {}
    /\ nextFileId = 1
    /\ vectors = <<>>
    /\ conversation = {[id |-> ConvId(1), userId |-> "u2", messageCount |-> 1,
                        summary |-> "analysis", followUp |-> FALSE]}
    /\ message = {}
    /\ tag = {}
    /\ conversationTag = {}
    /\ fileAccessLog = <<>>
    /\ searchQuery = <<>>
    /\ memoryRule = {}
    /\ memoryTrigger = <<>>
    /\ now = 0
    /\ pc = [p \in Procs |-> "idle"]
    /\ loc = [p \in Procs |-> NoLoc]
    /\ ret = [p \in Procs |-> NoRet]

\* Length rules are created and evaluated on conversations of every
\* length.
NextLength ==
    \/ CreateRuleStep(Users, "length", LengthConditions, Summarize)
    \/ EvaluateTriggersStep("p1", Users,
                            {m \in MessageLists : Range(m) \subseteq {<<"x">>}})
    \/ Crash

SpecLength == InitTrigger /\ [][NextLength]_vars

\* Keyword rules of one user are created and evaluated on conversations
\* of every content.
NextKeyword ==
    \/ CreateRuleStep({"u1"}, "keyword", KeywordConditions, Summarize)
    \/ EvaluateTriggersStep("p1", {"u1"}, MessageLists)
    \/ Crash

SpecKeyword == InitTrigger /\ [][NextKeyword]_vars

\* Time rules with a parseable interval are created and evaluated as time
\* passes.
NextTime ==
    \/ CreateRuleStep(Users, "time",
                      {c \in TimeConditions :
                          \A i \in c.interval : i.unit \in DOMAIN IntervalUnits},
                      Summarize)
    \/ EvaluateTriggersStep("p1", Users, {<<>>})
    \/ Tick
    \/ Crash

SpecTime == InitTrigger /\ [][NextTime]_vars

\* Time rules with any interval string, parseable or not, are created and
\* evaluated as time passes.
NextInterval ==
    \/ CreateRuleStep(Users, "time", TimeConditions, Summarize)
    \/ EvaluateTriggersStep("p1", Users, {<<>>})
    \/ Tick
    \/ Crash

SpecInterval == InitTrigger /\ [][NextInterval]_vars

\* The state after the seed script has run and the test user has started
\* a conversation.
InitSeeded ==
    /\ nas = <<>>
    /\ nasFile = {}
    /\ nextFileId = 1
    /\ vectors = <<>>
    /\ conversation = {[id |-> ConvId(1), userId |-> testUserId,
                        messageCount |-> 1, summary |-> "analysis",
                        followUp |-> FALSE]}
    /\ message = {}
    /\ tag = {}
    /\ conversationTag = {}
    /\ fileAccessLog = <<>>
    /\ searchQuery = <<>>
    /\ memoryRule = SeedRules
    /\ memoryTrigger = <<>>
    /\ now = 0
    /\ pc = [p \in Procs |-> "idle"]
    /\ loc = [p \in Procs |-> NoLoc]
    /\ ret = [p \in Procs |-> NoRet]

\* Message lists with and without the keyword of the seeded rule.
SeededMessageLists ==
    UNION {[1..n -> {<<"x">>, Important}] : n \in 0..MaxMessages}

\* On top of the seeded rules, length rules are created between the
\* evaluations; an evaluation starts while MemoryTrigger is empty, so that
\* the rows of the table are the rows of one call.
NextRows ==
    \/ /\ \A p \in Procs : pc[p] = "idle"
       /\ CreateRuleStep(Users, "length", LengthConditions, Summarize)
    \/ /\ pc["p1"] = "idle" => memoryTrigger = <<>>
       /\ EvaluateTriggersStep("p1", Users, SeededMessageLists)

SpecRows == InitSeeded /\ [][NextRows]_vars

\* The state after the seed script has run: the test user has the two
\* seeded rules and no conversation yet.
InitSeed ==
    /\ nas = <<>>
    /\ nasFile = {}
    /\ nextFileId = 1
    /\ vectors = <<>>
    /\ conversation = {}
    /\ message = {}
    /\ tag = {}
    /\ conversationTag = {}
    /\ fileAccessLog = <<>>
    /\ searchQuery = <<>>
    /\ memoryRule = SeedRules
    /\ memoryTrigger = <<>>
    /\ now = 0
    /\ pc = [p \in Procs |-> "idle"]
    /\ loc = [p \in Procs |-> NoLoc]
    /\ ret = [p \in Procs |-> NoRet]

\* The length of the conversation of the end-to-end scenario: two messages
\* more than the minMessages of the seeded length rule.
ScenarioMessages == 10 + 2

\* The test user saves conversations, among them the one of the scenario.
NextSeededSave ==
    \/ \E docs \in 1..MaxChunks, topics \in SUBSET Topics, ok \in BOOLEAN :
           SaveCreate("p1", testUserId, ScenarioMessages, docs, topics, ok)
    \/ SaveConversationStep("p1", {testUserId})
    \/ Crash

SpecSeededSave == InitSeed /\ [][NextSeededSave]_vars

\* What a call of chunkContent returns, with the arguments it was given.
Chunks(content, maxChunkSize) ==
    [status |-> "ok", kind |-> "chunks", content |-> content,
     maxChunkSize |-> maxChunkSize,
     chunks |-> chunkContent(content, maxChunkSize)]

\* chunkContent runs on its arguments; it awaits nothing.
ChunkContent(p) ==
    /\ pc[p] = "chunk"
    /\ UNCHANGED stores
    /\ Finish(p, Chunks(loc[p].content, loc[p].maxChunkSize))

\* chunkContent has been called with a content of any shape and any
\* chunk size.
InitChunk ==
    /\ nas = <<>>
    /\ nasFile = {}
    /\ nextFileId = 1
    /\ vectors = <<>>
    /\ conversation = {}
    /\ message = {}
    /\ tag = {}
    /\ conversationTag = {}
    /\ fileAccessLog = <<>>
    /\ searchQuery = <<>>
    /\ memoryRule = {}
    /\ memoryTrigger = <<>>
    /\ now = 0
    /\ pc = [p \in Procs |-> IF p = "p1" THEN "chunk" ELSE "idle"]
    /\ \E content \in Contents, maxChunkSize \in ChunkSizes :
          loc = [p \in Procs |->
                   IF p = "p1"
                   THEN [op |-> "chunkContent", content |-> content,
                         maxChunkSize |-> maxChunkSize]
                   ELSE NoLoc]
    /\ ret = [p \in Procs |-> NoRet]

NextChunk == ChunkContent("p1")

SpecChunk == InitChunk /\ [][NextChunk]_vars

\* One request at a time, every awaited call of which succeeds: a user
\* uploads texts of none, one or two chunks to a path, indexes the path and
\* removes it from the index.
NextReindex ==
    \/ Upload({UploadPath("u1")}, {EmptyText, ShortText, TextContent(2)})
    \/ /\ UploadPath("u1") \in DOMAIN nas
       /\ IndexRead("p1", UploadPath("u1"), "u1", NoConv, TRUE)
    \/ IndexEmbed("p1", TRUE)
    \/ IndexUpsertBatch("p1", TRUE)
    \/ IndexCatalog("p1", TRUE)
    \/ RemoveStart("p1", UploadPath("u1"), "u1")
    \/ RemoveFind("p1")
    \/ RemoveVectors("p1", TRUE)
    \/ RemoveRow("p1", TRUE)

SpecReindex == Init /\ [][NextReindex]_vars

\* The state after the test user has started a conversation and has been
\* given one active time rule: once a day.
InitDaily ==
    /\ nas = <<>>
    /\ nasFile = {}
    /\ nextFileId = 1
    /\ vectors = <<>>
    /\ conversation = {[id |-> ConvId(1), userId |-> testUserId,
                        messageCount |-> 1, summary |-> "analysis",
                        followUp |-> FALSE]}
    /\ message = {}
    /\ tag = {}
    /\ conversationTag = {}
    /\ fileAccessLog = <<>>
    /\ searchQuery = <<>>
    /\ memoryRule =
          {[id |-> 1, userId |-> testUserId, ruleType |-> "time",
            conditions |-> [interval |-> {[amount |-> 1, unit |-> "d"]},
                            daysOfWeek |-> {}],
            actions |-> CHOOSE a \in Summarize : TRUE, isActive |-> TRUE]}
    /\ memoryTrigger = <<>>
    /\ now = 0
    /\ pc = [p \in Procs |-> "idle"]
    /\ loc = [p \in Procs |-> NoLoc]
    /\ ret = [p \in Procs |-> NoRet]

\* Two handlers evaluate the triggers of the user at the same time, as
\* time passes.
NextConcurrent ==
    \/ \E p \in Procs : EvaluateTriggersStep(p, {testUserId}, {<<>>})
    \/ Tick

SpecConcurrent == InitDaily /\ [][NextConcurrent]_vars

Next == NextAccess

(***************************************************************************)
(* Claims about the File Indexer.                                          *)
(***************************************************************************)
\* The unique index NasFile_userId_filePath_key.
UniqueKey(rows) ==
    \A r1 \in rows, r2 \in rows :
        (r1.userId = r2.userId /\ r1.filePath = r2.filePath) => r1 = r2

\* The step in which indexFile of handler p writes the catalog and returns.
IndexCommits(p) ==
    pc[p] = "ix_catalog" /\ pc'[p] = "idle" /\ ret'[p].status = "ok"

\* C1: after any sequence of indexFile and removeFileFromIndex calls the
\* catalog holds at most one FileRecord per (userId, filePath), and an
\* indexFile call that completes leaves exactly one FileRecord for its key
\* whose vectorIds are the id list of that call alone (replaced, not
\* appended to what an earlier call stored).
C1_OneFileRecordPerKey ==
    [][/\ UniqueKey(nasFile')
       /\ \A p \in Procs :
            IndexCommits(p) =>
              \E r \in nasFile' :
                /\ FindNasFile(nasFile', loc[p].filePath, loc[p].userId) = {r}
                /\ r.vectorIds = ChunkVectorIds(loc[p].metadata.checksum,
                                                loc[p].chunks)]_vars

\* C1 witness: a row that was re-indexed (its update branch ran) and holds
\* the one vector id of a one-chunk text.
C1_Witness ==
    \E r \in nasFile :
        /\ r.modified
        /\ r.vectorIds = ChunkVectorIds(Checksum(ShortText), 1)
        /\ ret["p1"] = Ok

\* C2: in every state reachable by indexFile calls, crashes between two
\* steps included, every id in every FileRecord's vectorIds is the id of an
\* entry of the Vector Index.
C2_VectorIdsExist ==
    \A r \in nasFile : Range(r.vectorIds) \subseteq DOMAIN vectors

\* C2 witness: a FileRecord whose vectors took more than one upsert batch.
C2_Witness == \E r \in nasFile : Len(r.vectorIds) > batchSize

\* C3: when the embedding call or a vector upsert batch of indexFile fails,
\* the call neither writes the catalog before that point nor after it: it
\* rejects to its caller, and the NasFile table is what it was.
C3_FailureLeavesFileRecord ==
    [][\A p \in Procs :
         /\ (pc[p] \in {"ix_embed", "ix_upsert", "ix_throw"} /\ pc'[p] # pc[p])
               => nasFile' = nasFile
         /\ (pc[p] = "ix_throw" /\ pc'[p] # pc[p])
               => /\ pc'[p] = "idle"
                  /\ ret'[p] \in {DependencyFailure, NoRet}]_vars

\* C3 witness: a call was rejected while a FileRecord is present and the
\* first batch of the long text is stored without the second.
C3_Witness ==
    \E p \in Procs :
        /\ pc[p] = "idle" /\ ret[p] = DependencyFailure
        /\ nasFile # {}
        /\ VectorId(Checksum(LongText), 0) \in DOMAIN vectors
        /\ VectorId(Checksum(LongText), batchSize) \notin DOMAIN vectors

\* C8: removeFileFromIndex on a key without FileRecord returns without
\* raising and leaves catalog and Vector Index unchanged; and a removal that
\* returns leaves no FileRecord for its key, so that repeating it is that
\* no-op.
C8_RemovalIdempotent ==
    [][\A p \in Procs :
         /\ (/\ pc[p] = "rm_find" /\ pc'[p] # pc[p]
             /\ FindNasFile(nasFile, loc[p].filePath, loc[p].userId) = {})
               => /\ pc'[p] = "idle"
                  /\ ret'[p] \in {Ok, NoRet}
                  /\ nasFile' = nasFile /\ vectors' = vectors
         /\ (/\ pc[p] \in {"rm_find", "rm_row"} /\ pc'[p] = "idle"
             /\ ret'[p] = Ok)
               => FindNasFile(nasFile', loc[p].filePath, loc[p].userId) = {}]_vars

\* C8 witness: a removal returned although no row was ever inserted, with
\* vector entries (of an indexFile call that failed at the catalog) stored.
C8_Witness ==
    /\ pc["p1"] = "idle" /\ ret["p1"] = Ok
    /\ nextFileId = 1
    /\ DOMAIN vectors # {}

\* The FileRecord a single indexFile call stores after reading `content`.
RowOfOneCall(r, content) ==
    LET m == extractFileMetadata(r.filePath, content) IN
    /\ r.checksum = m.checksum
    /\ r.title = m.title
    /\ r.summary = m.summary
    /\ r.vectorIds = ChunkVectorIds(m.checksum, NumChunks(content))

\* C9: concurrent indexFile calls on one (userId, filePath), interleaved in
\* any way: each catalog write stores the checksum, metadata and vectorIds
\* of the writing call, and once the calls have returned there is exactly
\* one FileRecord, all of one call, whose vectorIds exist in the Vector
\* Index.
C9_ConcurrentReindex ==
    [][/\ \A p \in Procs :
            IndexCommits(p) =>
              \E r \in nasFile' :
                /\ nasFile' = {r}
                /\ r.checksum = loc[p].metadata.checksum
                /\ r.title = loc[p].metadata.title
                /\ r.summary = loc[p].metadata.summary
                /\ r.vectorIds = ChunkVectorIds(loc[p].metadata.checksum,
                                                loc[p].chunks)
       /\ (\A p \in Procs : pc'[p] = "idle" /\ ret'[p] = Ok)
            => \E r \in nasFile' :
                 /\ nasFile' = {r}
                 /\ \E c \in {ShortText, LongText} : RowOfOneCall(r, c)
                 /\ Range(r.vectorIds) \subseteq DOMAIN vectors']_vars

\* C9 witness: two calls on the same key, which read different contents,
\* are both about to write the catalog.
C9_Witness ==
    /\ pc["p1"] = "ix_catalog" /\ pc["p2"] = "ix_catalog"
    /\ loc["p1"].filePath = loc["p2"].filePath
    /\ loc["p1"].userId = loc["p2"].userId
    /\ loc["p1"].metadata.checksum # loc["p2"].metadata.checksum


(***************************************************************************)
(* Claims about the conversation save path.                                *)
(***************************************************************************)
\* C4: every id in the vectorIds of a FileRecord that saveConversation
\* created is the id of an entry written to the Vector Index.
C4_SavedVectorIdsWritten ==
    \A r \in nasFile :
        r.filePath.dir = "conversations" =>
            Range(r.vectorIds) \subseteq DOMAIN vectors

\* C5: every vector entry that carries a conversationId refers to a
\* Conversation row of the catalog, whose Message rows are written.
C5_VectorConversationExists ==
    \A id \in DOMAIN vectors :
        vectors[id].conversationId # NoConv =>
            /\ \E c \in conversation : c.id = vectors[id].conversationId
            /\ \E m \in message : m.conversationId = vectors[id].conversationId

(***************************************************************************)
(* Claims about access by path.                                            *)
(***************************************************************************)
\* The user on whose behalf the handler with locals l runs.
CallerOf(l) ==
    IF "ctx" \in DOMAIN l THEN l.ctx.caller
    ELSE IF "caller" \in DOMAIN l THEN l.caller
    ELSE l.userId

\* C6: a call that returns data of the stores returns the data of a catalog
\* row and of a blob that belong to the calling user.
C6_NoCrossUserRead ==
    [][\A p \in Procs :
         (/\ pc[p] # "idle" /\ pc'[p] = "idle"
          /\ "rowOwner" \in DOMAIN ret'[p])
            => /\ ret'[p].rowOwner = CallerOf(loc[p])
               /\ ret'[p].blobOwner = CallerOf(loc[p])]_vars

NoFileRecord(filePath, userId) ==
    ~ \E r \in nasFile : r.filePath = filePath /\ r.userId = userId

\* C7: when the catalog has no FileRecord for (userId, path), getFileByPath
\* goes from its permission check straight to the one error 'File not
\* found or access denied': it reads no blob and writes neither the access
\* log nor the catalog, whatever the blob store, the Vector Index and the
\* rows of other users hold.
C7_MissingRecordDenied ==
    [][\A p \in Procs :
         (/\ pc[p] = "gf_find" /\ pc'[p] # "gf_find"
          /\ NoFileRecord(loc[p].filePath, loc[p].userId))
            => /\ pc'[p] = "idle"
               /\ ret'[p] \in {AccessDenied, NoRet}
               /\ fileAccessLog' = fileAccessLog
               /\ nasFile' = nasFile]_vars

\* C7 witness: getFileByPath was denied while every upload path has a blob
\* and a FileRecord (of another user) and vector entries are stored.
C7_Witness ==
    /\ pc["p1"] = "idle" /\ ret["p1"] = AccessDenied
    /\ \A f \in UploadPaths :
          /\ f \in DOMAIN nas
          /\ \E r \in nasFile : r.filePath = f
    /\ DOMAIN vectors # {}

(***************************************************************************)
(* Claims about the Query Parser.                                          *)
(***************************************************************************)
\* C10: parseQuery never raises to its caller, and when no pattern matches
\* and the model-based extraction does not yield an intent, it returns
\* { type: semantic, query: <the raw query> }.
C10_ParseNeverRaises ==
    [][\A p \in Procs :
         (pc[p] \in {"pq_patterns", "pq_ai"} /\ pc'[p] = "idle"
          /\ ret'[p] # NoRet)
            => /\ ret'[p].status = "ok"
               /\ pc[p] = "pq_ai" =>
                    ret'[p].intent \in
                        AIIntents(loc[p].query) \cup
                            {SemanticFallback(loc[p].query)}]_vars


\* The category of filters a result of the pattern stage carries.
ResultCategory(r) ==
    IF r.status # "ok" THEN "raised"
    ELSE LET i == r.intent IN
         IF i.type = "semantic" THEN "semantic"
         ELSE IF i.aggregation # Absent THEN "aggregation"
         ELSE IF "tags" \in DOMAIN i.filters THEN "tag"
         ELSE IF "fileType" \in DOMAIN i.filters THEN "file type"
         ELSE IF "dateRange" \in DOMAIN i.filters
         THEN IF "match" \in DOMAIN i.filters.dateRange.start
              THEN "explicit date" ELSE "relative date"
         ELSE "none"

\* The result carries what one category gives and nothing of another.
OnlyCategory(r, cat) ==
    \/ r.status # "ok"
    \/ LET i == r.intent IN
       CASE cat = "semantic" ->
              i.type = "semantic" /\ i.filters = Absent /\ i.aggregation = Absent
         [] cat = "aggregation" ->
              i.type = "structured" /\ i.filters = Absent /\ i.query = Absent
         [] cat = "tag" ->
              /\ i.type = "structured" /\ DOMAIN i.filters = {"tags"}
              /\ i.query = Absent /\ i.aggregation = Absent
         [] cat = "file type" ->
              /\ i.type = "structured" /\ DOMAIN i.filters = {"fileType"}
              /\ i.query = Absent /\ i.aggregation = Absent
         [] cat \in {"explicit date", "relative date"} ->
              /\ i.type = "structured" /\ DOMAIN i.filters = {"dateRange"}
              /\ i.query = Absent /\ i.aggregation = Absent

\* The first category of the order that the query matches.
FirstMatch(order, q) ==
    LET hits == {k \in DOMAIN order : Matches(q, order[k])} IN
    IF hits = {} THEN "none"
    ELSE order[CHOOSE k \in hits : \A j \in hits : k <= j]

\* The pattern stage of handler p ends in this step (not by a crash).
PatternStageEnds(p) ==
    /\ pc[p] = "pq_patterns" /\ pc'[p] # "pq_patterns"
    /\ ~(pc'[p] = "idle" /\ ret'[p] = NoRet)

\* The pattern stage answers with the first category of the order, and
\* with that category alone; a relative date may raise instead; without a
\* match the stage hands over to the model-based extraction.
FirstCategoryWins(order) ==
    \A p \in Procs :
        PatternStageEnds(p) =>
            LET cat == FirstMatch(order, loc[p].query) IN
            IF cat = "none"
            THEN pc'[p] = "pq_ai"
            ELSE /\ pc'[p] = "idle"
                 /\ ResultCategory(ret'[p]) \in
                        {cat} \cup (IF cat = "relative date"
                                    THEN {"raised"} ELSE {})
                 /\ OnlyCategory(ret'[p], cat)

\* The order of the categories as the specification lists them.
ListedOrder ==
    <<"explicit date", "relative date", "tag", "file type", "semantic",
      "aggregation">>

C12_TagShortCircuits ==
    [][\A p \in Procs :
         (PatternStageEnds(p) /\ loc[p].query.tag # "")
            => /\ pc'[p] = "idle"
               /\ ret'[p] = [status |-> "ok",
                             intent |-> [type |-> "structured",
                                         query |-> Absent,
                                         filters |-> [tags |-> <<loc[p].query.tag>>],
                                         aggregation |-> Absent]]]_vars

\* C12 witness: a parse returned the tag filter of a quoted tag.
C12_Witness ==
    /\ pc["p1"] = "idle" /\ ret["p1"].status = "ok"
    /\ ret["p1"].intent.filters # Absent
    /\ "tags" \in DOMAIN ret["p1"].intent.filters
    /\ ret["p1"].intent.filters.tags = <<"important">>

\* C13: a query with a semantic indicator and a file type keyword, and no
\* quoted tag, is classified semantic with the raw text as its query.
C13_SemanticBeatsFileType ==
    [][\A p \in Procs :
         (/\ PatternStageEnds(p)
          /\ loc[p].query.tag = "" /\ loc[p].query.semantic
          /\ loc[p].query.fileType # "none")
            => /\ pc'[p] = "idle"
               /\ ret'[p].status = "ok"
               /\ ret'[p].intent.type = "semantic"
               /\ ret'[p].intent.query = [raw |-> loc[p].query]
               /\ ret'[p].intent.filters = Absent]_vars

\* C13 witness: "find conversations about X" (file type keyword and
\* semantic indicator, nothing else) came back semantic.
C13_Witness ==
    /\ pc["p1"] = "idle" /\ ret["p1"].status = "ok"
    /\ ret["p1"].intent.type = "semantic"
    /\ ret["p1"].intent.query # Absent
    /\ LET q == ret["p1"].intent.query.raw IN
       /\ q.tag = "" /\ q.semantic /\ q.fileType = "conversation"
       /\ q.date = "none" /\ ~q.count

(***************************************************************************)
(* Claims about the Search Engine.                                         *)
(***************************************************************************)
\* The score of a path by similarity: the best similarity of its hits
\* times 1.5, or 0 without a hit, plus 0.5 for a structured hit.
SimilarityScore(l, f) ==
    LET s == {l.vectorResults[k].similarity :
                k \in {j \in DOMAIN l.vectorResults :
                         l.vectorResults[j].filePath = f}}
    IN (IF s = {} THEN 0
        ELSE ((CHOOSE m \in s : \A o \in s : o <= m) * semanticWeight) \div 100)
       + (IF f \in Range(l.structuredPaths) THEN structuredWeight ELSE 0)

\* C14: after the merge of a hybrid search the matched paths are the
\* paths of the two legs sorted descending by (best similarity x 1.5, or 0)
\* + (0.5 for a structured hit), cut to the limit, whatever the rank of a
\* path in either leg and however many paths a leg returned.
C14_HybridScoreBySimilarity ==
    \A p \in Procs :
        (/\ pc[p] = "sr_records" /\ loc[p].op = "search"
         /\ loc[p].intent.type = "hybrid")
        => LET l == loc[p]
               all == Range(l.semanticPaths) \cup Range(l.structuredPaths)
               fp == l.filePaths
               cut == LimitOr(l.limit, defaultLimit)
           IN /\ Range(fp) \subseteq all
              /\ Len(fp) = (IF cut < Cardinality(all) THEN cut
                            ELSE Cardinality(all))
              /\ \A i, j \in DOMAIN fp :
                    i < j => /\ fp[i] # fp[j]
                             /\ SimilarityScore(l, fp[i]) >=
                                    SimilarityScore(l, fp[j])
              /\ \A f \in all \ Range(fp), g \in Range(fp) :
                    SimilarityScore(l, f) <= SimilarityScore(l, g)

\* C15: the list search returns holds a SearchResult for each matched path
\* with a FileRecord of the caller and a readable blob, and nothing else:
\* no null stands for a path without a catalog row or with a failed read.
C15_NoNullResults ==
    \A p \in Procs :
        (ret[p].status = "ok" /\ "results" \in DOMAIN ret[p])
        => \A k \in DOMAIN ret[p].results : ret[p].results[k] # Null

\* A step of handler p that is not a crash.
Runs(p) ==
    /\ pc'[p] # pc[p] \/ loc'[p] # loc[p]
    /\ ~(pc'[p] = "idle" /\ ret'[p] = NoRet)

\* C16: a step of search or getFileByPath that performs an audit write
\* (FileAccessLog insert, lastAccessed update, SearchQuery insert) ends,
\* whether or not the write succeeds, in the call going on or returning
\* with the entry or the results it had: the write never fails the call
\* and never removes or alters an entry.
C16_AuditFailureHarmless ==
    [][\A p \in Procs :
         Runs(p) =>
           /\ pc[p] \in {"sr_access", "sr_touch"} =>
                \E fileRecord \in FileRecordOf(loc[p]) :
                   \/ pc'[p] = "sr_touch" /\ loc'[p] = loc[p]
                   \/ /\ pc'[p] \in {"sr_read", "sr_log"}
                      /\ loc'[p].results =
                            Append(loc[p].results, SearchResult(fileRecord))
           /\ pc[p] = "sr_log" =>
                /\ pc'[p] = "idle"
                /\ ret'[p] = SearchResults(loc[p].results)
           /\ pc[p] = "gf_log" =>
                \/ pc'[p] = "gf_touch" /\ loc'[p] = loc[p]
                \/ pc'[p] = "idle" /\ ret'[p] = GetFileResult(loc[p])
           /\ pc[p] = "gf_touch" =>
                pc'[p] = "idle" /\ ret'[p] = GetFileResult(loc[p])]_vars

\* C16 witness: a search returned the entry of a file although no audit
\* write succeeded: no FileAccessLog row, no lastAccessed, no SearchQuery
\* row.
C16_Witness ==
    /\ ret["p1"].status = "ok" /\ "results" \in DOMAIN ret["p1"]
    /\ \E k \in DOMAIN ret["p1"].results : ret["p1"].results[k] # Null
    /\ fileAccessLog = <<>>
    /\ searchQuery = <<>>
    /\ \A r \in nasFile : ~r.lastAccessed

\* A step in which a search call of handler p returns successfully.
SearchSucceeds(p) ==
    /\ pc[p] \in {"sr_parse", "sr_vector", "sr_rows", "sr_records", "sr_read",
                  "sr_access", "sr_touch", "sr_log", "rs_parse", "rs_query"}
    /\ pc'[p] = "idle" /\ ret'[p].status = "ok"

\* C17: the step in which a search call returns successfully appends one
\* SearchQuery row with the query text, the intent type and the touched
\* paths, and no other step of a search call appends or removes a row: one
\* row per successful search, none for a failed one.
C17_OneSearchQueryRow ==
    [][\A p \in Procs :
         pc[p] \in {"sr_parse", "sr_vector", "sr_rows", "sr_records",
                    "sr_read", "sr_access", "sr_touch", "sr_log", "rs_parse",
                    "rs_query"}
         => IF SearchSucceeds(p)
            THEN searchQuery' = Append(searchQuery,
                     [userId |-> loc[p].userId, queryText |-> loc[p].query,
                      queryType |-> loc[p].intent.type,
                      filePaths |-> loc[p].filePaths])
            ELSE searchQuery' = searchQuery]_vars

\* C30: with all stores available, search returns a result list without
\* raising for every intent the Query Parser produces, a structured intent
\* without filters (count / how many) included: a search call ends in an
\* error only when a store call failed.
C30_SearchWithoutFilters ==
    [][\A p \in Procs :
         (/\ pc[p] \in {"sr_parse", "rs_parse"} /\ Runs(p)
          /\ pc'[p] = "idle")
            => ret'[p].status = "ok" \/ ret'[p] = DependencyFailure]_vars

(***************************************************************************)
(* Claims about the Trigger Engine.                                        *)
(***************************************************************************)
\* Handler p evaluates a rule of the type in this step, and the evaluation
\* gives an answer.
Evaluates(p, ruleType) ==
    /\ pc[p] = "et_rule" /\ Runs(p)
    /\ loc[p].rules[1].ruleType = ruleType
    /\ pc'[p] = "idle" => ret'[p].status = "ok"

\* The rule evaluated true: the loop goes on to write its MemoryTrigger.
Fires(p) == pc'[p] = "et_log"

\* C18: a length rule evaluates true iff minMessages <= messages.length <=
\* maxMessages, an omitted bound leaving its side free and every bound that
\* is present, 0 included, constraining it.
C18_LengthWithinBounds ==
    [][\A p \in Procs :
         Evaluates(p, "length") =>
            LET c == loc[p].rules[1].conditions
                n == Len(loc[p].messages)
            IN Fires(p) <=> /\ \A m \in c.minMessages : m <= n
                            /\ \A m \in c.maxMessages : n <= m]_vars

\* A keyword occurs in the messages whatever the case of its letters.
Occurs(keyword, messages) ==
    LET content == Join(messages) IN
    \E k \in 0..(Len(content) - Len(keyword)) :
        \A i \in 1..Len(keyword) : Lower(content[k + i]) = Lower(keyword[i])

\* C19: a keyword rule with matchType any, or without matchType, evaluates
\* true iff at least one of its keywords occurs case-insensitively in the
\* content of the messages; with matchType all, iff every keyword occurs.
C19_KeywordAnyAll ==
    [][\A p \in Procs :
         Evaluates(p, "keyword") =>
            LET c == loc[p].rules[1].conditions
                hit(k) == Occurs(c.keywords[k], loc[p].messages)
            IN Fires(p) <=> IF c.matchType \in {"", "any"}
                            THEN \E k \in DOMAIN c.keywords : hit(k)
                            ELSE \A k \in DOMAIN c.keywords : hit(k)]_vars

\* C19 witness: the rule { keywords: [U, t], matchType: any } fired on a
\* conversation whose only message is "T".
C19_Witness ==
    /\ pc["p1"] = "et_log"
    /\ loc["p1"].rules[1].ruleType = "keyword"
    /\ loc["p1"].rules[1].conditions =
          [keywords |-> << <<"U">>, <<"t">> >>, matchType |-> "any"]
    /\ loc["p1"].messages = << <<"T">> >>

\* The times of the time-type MemoryTrigger rows of the conversations of a
\* user.
TimeTriggersOf(userId) ==
    {memoryTrigger[k].triggeredAt :
        k \in {j \in DOMAIN memoryTrigger :
                 /\ memoryTrigger[j].triggerType = "time"
                 /\ \E c \in conversation :
                       /\ c.id = memoryTrigger[j].conversationId
                       /\ c.userId = userId}}

\* C20: a time rule (with a parseable interval) evaluates false exactly
\* when (a) it has an interval and less than the interval has passed since
\* the most recent time-type MemoryTrigger of the same user, or (b) it has
\* daysOfWeek and today's weekday is not among them; otherwise, also
\* without an earlier time trigger of the user, it evaluates true.
C20_TimeRule ==
    [][\A p \in Procs :
         Evaluates(p, "time") =>
            LET rule == loc[p].rules[1]
                times == TimeTriggersOf(rule.userId)
                latest == CHOOSE t \in times : \A o \in times : o <= t
                tooSoon == \E i \in rule.conditions.interval :
                              /\ times # {}
                              /\ now - latest < parseInterval(i).value
                wrongDay == \E days \in rule.conditions.daysOfWeek :
                               getDay(now) \notin days
            IN ~Fires(p) <=> (tooSoon \/ wrongDay)]_vars

\* C20 witness: a time rule with an interval of user u1 fired at the very
\* time of a time-type MemoryTrigger of a conversation of user u2.
C20_Witness ==
    /\ pc["p1"] = "et_log"
    /\ loc["p1"].rules[1].ruleType = "time"
    /\ loc["p1"].rules[1].userId = "u1"
    /\ loc["p1"].rules[1].conditions.interval # {}
    /\ TimeTriggersOf("u1") = {}
    /\ now \in TimeTriggersOf("u2")

\* The rule that handler p evaluates has an interval that parseInterval
\* does not accept.
UnparseableInterval(p) ==
    /\ loc[p].rules[1].ruleType = "time"
    /\ \E i \in loc[p].rules[1].conditions.interval :
          parseInterval(i).status # "ok"

\* C21: the evaluation of a time rule whose interval is not of the form
\* <integer><s|m|h|d|w> skips that rule only: the rule does not fire (so no
\* MemoryTrigger row is written for it), with or without an earlier time
\* trigger of the user, and evaluateTriggers does not raise the interval
\* error but goes on with the other rules.
C21_UnparseableIntervalSkipped ==
    [][\A p \in Procs :
         (pc[p] = "et_rule" /\ Runs(p) /\ UnparseableInterval(p)) =>
            /\ ~Fires(p)
            /\ ret'[p] # Err("Invalid interval format")]_vars

\* A call of evaluateTriggers by handler p returns its actions in this
\* step.
Returns(p) ==
    /\ pc[p] \in {"et_rules", "et_rule", "et_log"} /\ Runs(p)
    /\ pc'[p] = "idle" /\ ret'[p].status = "ok"

\* The row that the firing of a rule on a conversation leaves.
FiringOf(row, rule, conversationId) ==
    /\ row.triggerType = rule.ruleType
    /\ row.conversationId = conversationId
    /\ row.details = [ruleId |-> rule.id, conditions |-> rule.conditions,
                      actions |-> rule.actions]

\* C22: when a call of evaluateTriggers that started on an empty
\* MemoryTrigger table returns, the table holds exactly one row (rule id,
\* conditions and actions snapshot) for each active rule of the given user
\* that evaluates true on the messages, and no other row: none for a rule
\* that is inactive, of another user, or evaluates false. And no step ever
\* changes or removes a row: the table only grows at its end.
C22_OneRowPerFiring ==
    [][/\ \A p \in Procs :
            Returns(p) =>
               LET l == loc[p]
                   fired == {r \in memoryRule :
                               /\ r.userId = l.userId /\ r.isActive
                               /\ evaluateRule(r, l.messages, memoryTrigger,
                                               conversation, now, TRUE).value}
               IN /\ Len(memoryTrigger') = Cardinality(fired)
                  /\ \A r \in fired :
                        \E k \in DOMAIN memoryTrigger' :
                            FiringOf(memoryTrigger'[k], r, l.conversationId)
       /\ Len(memoryTrigger') >= Len(memoryTrigger)
       /\ SubSeq(memoryTrigger', 1, Len(memoryTrigger)) = memoryTrigger]_vars

\* C22 witness: a call has returned the actions of two rules, while a
\* third rule, an inactive one or one of another user or one that is
\* false, left no row.
C22_Witness ==
    /\ pc["p1"] = "idle"
    /\ ret["p1"] = TriggeredActions(<<"tag", "generate_summary">>)
    /\ Len(memoryTrigger) = 2
    /\ Cardinality(memoryRule) = 3

\* C23: once the call of evaluateTriggers that wrote the rows of the
\* MemoryTrigger table has ended, by returning or by raising, the caller
\* holds the typed actions of every row of the table: the actions of a
\* firing whose row exists are handed over also when the audit write of
\* another rule of the batch fails or a later rule raises.
C23_ActionsDelivered ==
    \A p \in Procs :
        (pc[p] = "idle" /\ ret[p] # NoRet) =>
           \A k \in DOMAIN memoryTrigger :
               /\ ret[p].status = "ok"
               /\ Range(parseActions(memoryTrigger[k].details.actions))
                     \subseteq Range(ret[p].actions)

\* Handler p returns from saveConversation in this step: the save of the
\* scenario, a conversation of 12 messages (one of which says important;
\* saveConversation hands the contents to the language model and to the
\* blob store only) of a user whose two seeded rules are active.
ScenarioSaved(p) ==
    /\ pc[p] = "sv_followup" /\ Runs(p)
    /\ pc'[p] = "idle" /\ ret'[p] = Ok
    /\ loc[p].n = ScenarioMessages
    /\ \A r \in SeedRules :
          r \in memoryRule /\ r.isActive /\ r.userId = loc[p].userId

\* C24: when the save of the scenario returns, its last step, trigger
\* evaluation, has produced exactly two MemoryTrigger rows for the
\* conversation and the conversation carries the tag important.
C24_SaveEvaluatesTriggers ==
    [][\A p \in Procs :
         ScenarioSaved(p) =>
            /\ Cardinality({k \in DOMAIN memoryTrigger' :
                               memoryTrigger'[k].conversationId =
                                  loc[p].conversationId}) = 2
            /\ \E t \in conversationTag' :
                  /\ t.conversationId = loc[p].conversationId
                  /\ t.name = "important"]_vars

\* C29: for a user with one active time rule of interval D, any two
\* time-type MemoryTrigger rows of the user are at least D apart, also when
\* two evaluateTriggers calls of the user interleave.
C29_TimeTriggersApart ==
    \A r \in memoryRule :
        (r.ruleType = "time" /\ r.isActive) =>
           \A i \in r.conditions.interval :
               \A j, k \in DOMAIN memoryTrigger :
                   (/\ j < k
                    /\ memoryTrigger[j].triggeredAt \in TimeTriggersOf(r.userId)
                    /\ memoryTrigger[k].triggeredAt \in TimeTriggersOf(r.userId))
                      => memoryTrigger[k].triggeredAt - memoryTrigger[j].triggeredAt
                            >= parseInterval(i).value

(***************************************************************************)
(* Claims about removal and the Vector Index.                              *)
(***************************************************************************)
\* The FileRecords that this step deletes.
DeletedRows == {r \in nasFile : \A q \in nasFile' : q.id # r.id}

C27_RemovalSparesOtherRecords ==
    [][\A p \in Procs :
         (pc[p] = "rm_vectors" /\ Runs(p)) =>
            \A r \in nasFile :
                r.id # loc[p].file.id =>
                   \A id \in Range(r.vectorIds) \cap DOMAIN vectors :
                       id \in DOMAIN vectors' /\ vectors'[id] = vectors[id]]_vars

\* The ids of the Vector Index entries whose metadata names the user and
\* the path.
EntriesOf(userId, filePath) ==
    {id \in DOMAIN vectors :
        vectors[id].userId = userId /\ vectors[id].filePath = filePath}

\* C28: between the calls of indexFile and removeFileFromIndex, the entries
\* of the Vector Index whose metadata names (userId u, filePath p) are the
\* vectorIds of the FileRecord of (u, p), and there are none when there is
\* no such FileRecord.
C28_EntriesAreVectorIds ==
    (\A p \in Procs : pc[p] = "idle") =>
       \A u \in Users, f \in UploadPaths :
           LET rows == FindNasFile(nasFile, f, u) IN
           /\ rows = {} => EntriesOf(u, f) = {}
           /\ \A r \in rows : EntriesOf(u, f) = Range(r.vectorIds)

(***************************************************************************)
(* Claims about chunkContent.                                              *)
(***************************************************************************)
\* The sentences of a text: the pieces between its runs of terminators,
\* without the blanks around them, the pieces that are blank left out.
Sentences(text) ==
    SelectSeq([k \in DOMAIN split(text) |-> trim(split(text)[k])],
              LAMBDA piece : piece # <<>>)

\* The sentences of the chunks from the k-th on, in order.
RECURSIVE SentencesOfChunks(_, _)
SentencesOfChunks(chunks, k) ==
    IF k > Len(chunks) THEN <<>>
    ELSE Sentences(chunks[k]) \o SentencesOfChunks(chunks, k + 1)

\* Every sentence of the content is in exactly one chunk, whole and in
\* its place.
SentencesKept(r) == SentencesOfChunks(r.chunks, 1) = Sentences(r.content)

\* A chunk of more than one sentence is no longer than the size asked for.
ChunksFit(r) ==
    \A k \in DOMAIN r.chunks :
        Len(Sentences(r.chunks[k])) > 1 => Len(r.chunks[k]) <= r.maxChunkSize

\* C25: chunkContent(content, max) places every sentence of the content,
\* whole and in its original order, in exactly one chunk, and every chunk
\* that holds more than one sentence has length at most max.
C25_ChunksKeepSentencesAndFit ==
    \A p \in Procs :
        ret[p] # NoRet => SentencesKept(ret[p]) /\ ChunksFit(ret[p])

Spec == Init /\ [][Next]_vars

====
